---------------------------- MODULE Spec2Model ----------------------------
(***************************************************************************)
(* devio: server end of the ImDisk proxy protocol (src/devio/devio.c).     *)
(*                                                                         *)
(* The model follows the LP64 build (safeio_size_t, off_t_64 and the wire  *)
(* integers are all 64 bits wide).  To keep the state space finite the     *)
(* geometry is scaled: 64-bit integers are WordBits wide, a sector is      *)
(* 2^SectorShiftScale bytes, the VHD footer is one sector, the dynamic     *)
(* header two sectors, the proxy header area HeaderWords 8-byte words.     *)
(* BAT entries keep their four big-endian bytes.                           *)
(***************************************************************************)
EXTENDS Integers, Sequences, FiniteSets, TLC

---------------------------------------------------------------------------
(* Bounds of the model *)

WordBits == 7
SectorShiftScale == 1
BlockSectorsLog == 1
NumBlocks == 2
HeaderWords == 7
PageGranLog == 2
MaxRequests == 2
InitBufferLog == 3

---------------------------------------------------------------------------
(* Fixed-width arithmetic *)

RECURSIVE Pow2(_)
Pow2(n) == IF n = 0 THEN 1 ELSE 2 * Pow2(n - 1)

WordMod == Pow2(WordBits)

\* value of an unsigned 64-bit expression
ToU(x) == x % WordMod

\* value of a signed 64-bit expression (two's complement)
ToS(x) == LET u == x % WordMod IN IF u >= WordMod \div 2 THEN u - WordMod ELSE u

\* arithmetic right shift of a signed value
Asr(x, n) == IF x >= 0 THEN x \div Pow2(n) ELSE -(((-x) + Pow2(n) - 1) \div Pow2(n))

Min(a, b) == IF a < b THEN a ELSE b
Max(a, b) == IF a > b THEN a ELSE b

\* ((safeio_size_t)-1) >> 1
SizeHalfMax == (WordMod - 1) \div 2

\* the memory a process can have is a fraction of what a size_t can count:
\* no allocation above it succeeds, no store running past it goes unnoticed
MemoryLimit == WordMod \div 4

---------------------------------------------------------------------------
(* Program constants *)

IMDPROXY_REQ_INFO == 1
IMDPROXY_REQ_READ == 2
IMDPROXY_REQ_WRITE == 3
IMDPROXY_FLAG_RO == 1

E2BIG == 7
EBADF == 9
EIO == 5
ENOMEM == 12
ENODEV == 19
EINVAL == 22

SPARSE == <<255, 255, 255, 255>>

sector_size == Pow2(SectorShiftScale)

\* for (sector_shift = 0; sector_shift < 64 && (1 << sector_shift) != sector_size; sector_shift++);
sector_shift == CHOOSE s \in 0..WordBits : Pow2(s) = sector_size

FooterSize == sector_size
HeaderSize == 2 * sector_size
QWordSize == 8
DrvHeaderWords == 3
PageGran == Pow2(PageGranLog)

---------------------------------------------------------------------------
(* Byte sequences; the byte at file offset o is f[o + 1] *)

Zeros(n) == [i \in 1..n |-> 0]
Fill(n, b) == [i \in 1..n |-> b]

Slice(f, off, n) == [i \in 1..n |-> f[off + i]]

\* bytes b stored at offset off of f; a store past the end zero-fills the gap
Store(f, off, b) ==
    IF Len(b) = 0 THEN f
    ELSE [i \in 1..Max(Len(f), off + Len(b)) |->
            IF i > off /\ i <= off + Len(b) THEN b[i - off]
            ELSE IF i <= Len(f) THEN f[i] ELSE 0]

\* store into a fixed-size memory region (no growth)
Poke(mem, off, b) ==
    [i \in 1..Len(mem) |-> IF i > off /\ i <= off + Len(b) THEN b[i - off] ELSE mem[i]]

AllZero(b) == \A i \in 1..Len(b) : b[i] = 0

\* htonl / ntohl composed with the little-endian load or store of the word
\* (the value is kept within the model's word width)
BE32(b) == ((((((b[1] * 256 + b[2]) % WordMod) * 256 + b[3]) % WordMod) * 256) + b[4]) % WordMod
BE32Bytes(v) == << (v \div 16777216) % 256, (v \div 65536) % 256, (v \div 256) % 256, v % 256 >>


---------------------------------------------------------------------------
(* Program state *)

VARIABLES
    file,           \* contents of the backing store (host file or plugin image)
    dll_mode,       \* backing store is a plugin (image_fd stays -1)
    vhd_mode,
    flags,          \* devio_info.flags
    file_size,      \* devio_info.file_size
    image_offset,
    current_size,
    block_size,
    block_shift,
    table_offset,
    footer,         \* vhd_info.Footer
    transport,      \* "sock", "shm" (shm_mode) or "drv" (drv_mode)
    buffer_size,
    buf,            \* the region at buf; Len(buf) is its real capacity
    buf2,           \* [st |-> "null" | "live" | "freed", cap |-> bytes]
    region,         \* header area of the shared region, in 8-byte words
    shm_readptr,    \* word index into region, or -1 for NULL
    shm_writeptr,
    inbox,          \* "fresh": the region holds a request the server has not read yet
    errno,
    pc,             \* "start", "loop" (top of for (;;)), "replied" (handler returning 1),
                    \* "closed" (return 0), "failed" (return 1), "blocked", "crashed"
    arrivals,       \* number of requests the client has supplied so far
    lastReq,        \* the request dispatched last
    lastResp,       \* what was sent in answer to it
    ioLog,          \* physical operations issued while serving it
    lret,           \* what logical_read / logical_write returned for it
    faulted,        \* the backing store (or malloc) failed or fell short while serving it
    fail,           \* why its handler returned 0: "none", "comm" or "toobig"
    prev,           \* the request of the turn before (payload kept for writes)
    locked,         \* a Lock-memory request is outstanding for the mapped region
    wire,           \* bytes taken from and put on the socket while serving lastReq,
                    \* the header read that fell short: "none", "code" or "hdr",
                    \* whether the exchange with the driver found the device gone
                    \* (gone) or was issued with no Lock-memory request outstanding
                    \* for the mapped region (bare), whether the server has been
                    \* woken by Request since its last Response (held) and whether
                    \* it touched the shared region while it was not (stray)
    srv,            \* the server processes started on one shared-memory name and
                    \* the named kernel objects they hold (see do_comm_shm below)
    boot            \* main before do_comm: the command line, the partition tables of
                    \* the image, partition_number and how far main has come

vars == << file, dll_mode, vhd_mode, flags, file_size, image_offset, current_size,
           block_size, block_shift, table_offset, footer, transport, buffer_size,
           buf, buf2, region, shm_readptr, shm_writeptr, inbox, errno, pc, arrivals,
           lastReq, lastResp, ioLog, lret, faulted, fail, prev, locked, wire, srv, boot >>

\* everything but the sizes and positions main works out before do_comm
protocolRest ==
    << vhd_mode, file, block_size, block_shift, table_offset, footer, flags, dll_mode,
       transport, buffer_size, buf, buf2, region, shm_readptr, shm_writeptr, inbox,
       errno, pc, arrivals, lastReq, lastResp, ioLog, lret, faulted, fail, prev, locked,
       wire >>

NoFault == [kind |-> "none", at |-> 0, n |-> 0]

---------------------------------------------------------------------------
(* Backing store.  m is the state of the process while one request is      *)
(* served; m.fault names the physical operation of this request the        *)
(* backing store fails or cuts short, m.dll is dll_mode.                   *)

Faulted(m, kind) == m.fault.kind = kind /\ m.fault.at = m.nio + 1

Logged(m, op, off, size, ret) ==
    [m EXCEPT !.nio = @ + 1,
              !.ioLog = Append(@, [op |-> op, off |-> off, size |-> size, ret |-> ret])]

\* pread() / dll_read(): m.ret is the byte count or -1, m.rd the bytes delivered
physical_read(m, size, offset) ==
    LET avail == IF offset >= Len(m.file) THEN 0 ELSE Min(size, Len(m.file) - offset)
        n == IF Faulted(m, "short") THEN Min(avail, m.fault.n) ELSE avail
    IN  IF offset < 0
        THEN [Logged(m, "r", offset, size, -1) EXCEPT
                !.ret = -1, !.rd = << >>, !.errno = IF m.dll THEN @ ELSE EINVAL]
        ELSE IF Faulted(m, "err")
        THEN [Logged(m, "r", offset, size, -1) EXCEPT
                !.ret = -1, !.rd = << >>, !.faulted = TRUE,
                !.errno = IF m.dll THEN @ ELSE EIO]
        ELSE [Logged(m, "r", offset, size, n) EXCEPT
                !.ret = n, !.rd = Slice(m.file, offset, n), !.faulted = @ \/ n < avail]

\* pwrite() / dll_write() of the bytes b
physical_write(m, b, offset) ==
    LET n == IF Faulted(m, "short") THEN Min(Len(b), m.fault.n) ELSE Len(b)
    IN  IF offset < 0
        THEN [Logged(m, "w", offset, Len(b), -1) EXCEPT
                !.ret = -1, !.errno = IF m.dll THEN @ ELSE EINVAL]
        ELSE IF Faulted(m, "err")
        THEN [Logged(m, "w", offset, Len(b), -1) EXCEPT
                !.ret = -1, !.faulted = TRUE, !.errno = IF m.dll THEN @ ELSE EIO]
        ELSE [Logged(m, "w", offset, Len(b), n) EXCEPT
                !.ret = n, !.file = Store(@, offset, Slice(b, 0, n)),
                !.faulted = @ \/ n < Len(b)]

\* _lseeki64(image_fd, -sizeof(vhd_info.Footer), SEEK_END)
SeekFooter(m) ==
    IF m.dll THEN [m EXCEPT !.ret = -1, !.errno = EBADF]
    ELSE IF Len(m.file) < FooterSize THEN [m EXCEPT !.ret = -1, !.errno = EINVAL]
    ELSE [m EXCEPT !.ret = Len(m.file) - FooterSize]

\* an access to the shared region (header or buffer): it is stray when the
\* server has signalled Response and has not been woken by Request since
Touch(m) == [m EXCEPT !.wire.stray = @ \/ (transport = "shm" /\ ~m.wire.held)]

\* a store of n bytes at buf + ip; running past the region is out of bounds
BufStore(m, ip, b) ==
    [Touch(m) EXCEPT !.buf = Poke(@, ip, b),
              !.oob = @ \/ (Len(b) > 0 /\ ip + Len(b) > Len(m.buf)),
              !.fatal = @ \/ (ip + Len(b) > Len(m.buf) /\ ip + Len(b) > MemoryLimit)]

\* n bytes read from buf + ip (bytes past the region read as zero)
BufLoad(m, ip, n) ==
    [i \in 1..n |-> IF ip + i <= Len(m.buf) THEN m.buf[ip + i] ELSE 0]

E2BigIfZero(m) == [m EXCEPT !.errno = IF @ = 0 THEN E2BIG ELSE @, !.ret = -1]

---------------------------------------------------------------------------
(* VHD engine *)

\* if (offset + size > current_size): off_t_64 + safeio_size_t is unsigned
OutOfRange(size, offset) == ToU(offset + size) > ToU(current_size)

\* data_offset = table_offset + (block_number << 2)
BatOffset(offset) == ToS(table_offset + 4 * Asr(offset, block_shift))

\* in_block_offset = (safeio_size_t)offset & (block_size - 1)
InBlockOffset(offset) == ToU(offset) % block_size

\* the request is not split at the end of the block
FirstSizeUnclipped(size, offset) == size

\* size of the part that lies in the block of offset
FirstSize(size, offset) ==
    IF size + InBlockOffset(offset) > block_size
    THEN block_size - InBlockOffset(offset) ELSE size

\* (((off_t_64)block_offset) << sector_shift) + sector_size + in_block_offset
DataOffset(block_offset, offset) ==
    ToS(block_offset * Pow2(sector_shift) + sector_size + InBlockOffset(offset))

\* ((off_t_64)block_offset << sector_shift) + (in_block_offset >> sector_shift >> 3)
BitmapOffset(block_offset, offset) ==
    ToS(block_offset * Pow2(sector_shift) + ((InBlockOffset(offset) \div Pow2(sector_shift)) \div 8))

\* (((first_size + sector_size - 1) >> sector_shift) + 7) >> 3
BitmapDatasize(first_size) ==
    (((first_size + sector_size - 1) \div Pow2(sector_shift)) + 7) \div 8

\* the bytes a read delivered land at io_ptr
StoreRead(r, ip) == IF r.ret = -1 THEN r ELSE BufStore(r, ip, r.rd)

\* lines 752-755: the physical read is issued twice, the second result counts
ReadBlockData(m, ip, first_size, data_offset) ==
    StoreRead(physical_read(StoreRead(physical_read(m, first_size, data_offset), ip),
                            first_size, data_offset), ip)

\* readdone += second_read (or -1)
AddDone(done, t) == IF t.ret = -1 THEN t ELSE [t EXCEPT !.ret = done + t.ret]

RECURSIVE vhd_read(_, _, _, _)

\* lines 758-769; d.ret is readdone of the first block
vhd_read_second(d, ip, size, offset) ==
    IF d.ret = -1 \/ size = FirstSize(size, offset) THEN d
    ELSE AddDone(d.ret, vhd_read(d, ip + FirstSize(size, offset),
                                 size - FirstSize(size, offset),
                                 ToS(offset + FirstSize(size, offset))))

\* the test for 0xFFFFFFFF left out: every block is read from the file
vhd_read_block_unconditional(bat, ip, size, offset) ==
    IF bat.ret # 4 THEN E2BigIfZero(bat)
    ELSE vhd_read_second(
            ReadBlockData(BufStore(bat, ip, Zeros(size)), ip, FirstSize(size, offset),
                          DataOffset(BE32(bat.rd), offset)),
            ip, size, offset)

\* lines 730-756; bat is the state after the read of the BAT entry
vhd_read_block(bat, ip, size, offset) ==
    IF bat.ret # 4 THEN E2BigIfZero(bat)
    ELSE vhd_read_second(
            IF bat.rd = SPARSE
            THEN [BufStore(bat, ip, Zeros(size)) EXCEPT !.ret = FirstSize(size, offset)]
            ELSE ReadBlockData(BufStore(bat, ip, Zeros(size)), ip, FirstSize(size, offset),
                               DataOffset(BE32(bat.rd), offset)),
            ip, size, offset)

vhd_read(m, ip, size, offset) ==
    IF OutOfRange(size, offset) THEN [m EXCEPT !.ret = 0]
    ELSE vhd_read_block(physical_read(m, 4, BatOffset(offset)), ip, size, offset)

\* The zero test of vhd_write:
\*   for (p = io_ptr; (p < io_ptr + nqwords) ? 0 : (*p == 0); p++);
\*   if (p >= io_ptr + nqwords) ... block stays sparse
\* With nqwords > 0 the loop stops at once with p = io_ptr.  With nqwords = 0
\* it walks the memory at io_ptr until it meets a non-zero quad word.
SkipAllocation(first_size_nqwords) == first_size_nqwords = 0

\* the walk stays inside buf iff some quad word of buf from io_ptr on is non-zero
ZeroScanInBounds(m, ip) ==
    \E j \in 0..(Len(m.buf) \div QWordSize) :
        /\ ip + QWordSize * (j + 1) <= Len(m.buf)
        /\ ~AllZero(BufLoad(m, ip + QWordSize * j, QWordSize))

ZeroScan(m, ip, first_size_nqwords) ==
    IF first_size_nqwords = 0 /\ ~ZeroScanInBounds(m, ip)
    THEN [m EXCEPT !.oob = TRUE] ELSE m

\* lines 903-916; m.ret becomes the new BAT value in host order
NewBlockDone(w2, sector) ==
    IF w2.ret # sector_size + block_size + FooterSize THEN E2BigIfZero(w2)
    ELSE [w2 EXCEPT !.ret = sector]

\* lines 881-901: zeroes followed by the footer go where the footer was
WriteNewBlock(w1, block_offset_bytes) ==
    IF w1.ret # 4 THEN E2BigIfZero(w1)
    ELSE NewBlockDone(physical_write(w1, Zeros(sector_size + block_size) \o footer,
                                     block_offset_bytes),
                      block_offset_bytes \div Pow2(sector_shift))

\* the new block is put one sector after the place of the footer
UpdateBatBehindFooter(sk, offset) ==
    IF sk.ret = -1 THEN sk
    ELSE WriteNewBlock(physical_write(sk, BE32Bytes(sk.ret \div Pow2(sector_shift) + 1),
                                      BatOffset(offset)),
                       sk.ret + sector_size)

\* lines 868-880: the BAT entry is pointed at the place of the footer
UpdateBat(sk, offset) ==
    IF sk.ret = -1 THEN sk
    ELSE WriteNewBlock(physical_write(sk, BE32Bytes(sk.ret \div Pow2(sector_shift)),
                                      BatOffset(offset)),
                       sk.ret)

\* lines 855-917: a new block is put where the footer is; m.ret is -1 on failure
AllocateBlock(m, offset) ==
    IF m.fault.kind = "nomem" THEN [m EXCEPT !.ret = -1, !.errno = ENOMEM, !.faulted = TRUE]
    ELSE UpdateBat(SeekFooter(m), offset)

\* memset(buf2, 0xFF, bitmap_datasize)
FillBuf2(m, n) ==
    IF n > 0 /\ (m.buf2.st # "live" \/ m.buf2.cap < n) THEN [m EXCEPT !.oob = TRUE] ELSE m

\* lines 941-949
BitmapDone(b, n, writedone) ==
    IF b.ret # n THEN E2BigIfZero(b) ELSE [b EXCEPT !.ret = writedone]

\* lines 926-940; w is the state after the data write, w.ret is writedone
UpdateBitmap(w, first_size, block_offset, offset) ==
    IF w.ret = -1 THEN w
    ELSE BitmapDone(physical_write(FillBuf2(w, BitmapDatasize(first_size)),
                                   Fill(BitmapDatasize(first_size), 255),
                                   BitmapOffset(block_offset, offset)),
                    BitmapDatasize(first_size), w.ret)

\* lines 919-949: data write and bitmap update; m.ret is writedone or -1
WriteBlockData(m, ip, first_size, block_offset, offset) ==
    UpdateBitmap(physical_write(m, BufLoad(m, ip, first_size),
                                DataOffset(block_offset, offset)),
                 first_size, block_offset, offset)

RECURSIVE vhd_write(_, _, _, _)

\* lines 837-846 and 951-960; d.ret is writedone of the first block
vhd_write_second(d, ip, size, offset) ==
    IF d.ret = -1 \/ size = FirstSize(size, offset) THEN d
    ELSE AddDone(d.ret, vhd_write(d, ip + FirstSize(size, offset),
                                  size - FirstSize(size, offset),
                                  ToS(offset + FirstSize(size, offset))))

\* lines 919-922 after an allocation: block_offset is the value just stored
WriteNewBlockData(a, ip, size, offset) ==
    IF a.ret = -1 THEN a
    ELSE WriteBlockData(a, ip, FirstSize(size, offset), a.ret, offset)

\* lines 806-949; bat is the state after the read of the BAT entry
vhd_write_block(bat, ip, size, offset) ==
    IF bat.ret # 4 THEN E2BigIfZero(bat)
    ELSE vhd_write_second(
            IF bat.rd # SPARSE
            THEN WriteBlockData(bat, ip, FirstSize(size, offset), BE32(bat.rd), offset)
            ELSE IF SkipAllocation((FirstSize(size, offset) + 7) \div 8)
            THEN [ZeroScan(bat, ip, (FirstSize(size, offset) + 7) \div 8)
                     EXCEPT !.ret = FirstSize(size, offset)]
            ELSE WriteNewBlockData(AllocateBlock(bat, offset), ip, size, offset),
            ip, size, offset)

vhd_write(m, ip, size, offset) ==
    IF OutOfRange(size, offset) THEN [m EXCEPT !.ret = 0]
    ELSE vhd_write_block(physical_read(m, 4, BatOffset(offset)), ip, size, offset)

\* logical_read / logical_write
logical_read(m, size, offset) ==
    IF vhd_mode THEN vhd_read(m, 0, size, offset)
    ELSE StoreRead(physical_read(m, size, offset), 0)

logical_write(m, size, offset) ==
    IF vhd_mode THEN vhd_write(m, 0, size, offset)
    ELSE physical_write(m, BufLoad(m, 0, size), offset)

---------------------------------------------------------------------------
(* Buffer management *)

RoundUp(n, g) == ((n + g - 1) \div g) * g

FreshRegion == [i \in 1..HeaderWords |-> 0]

\* free(p)
Free(p) == IF p.st = "live" THEN [p EXCEPT !.st = "freed"] ELSE p
DoubleFree(p) == p.st = "freed"

\* map_size.QuadPart = (ULONGLONG)buffer_size + IMDPROXY_HEADER_SIZE
MapSize(size) == (size + HeaderWords) % WordMod

\* a mapping the address space cannot hold (or an empty one) fails whatever
\* the plan says
AllocPlan(m) ==
    IF MapSize(m.buffer_size) > MemoryLimit \/ MapSize(m.buffer_size) = 0 THEN "nomap"
    ELSE m.inp.alloc

\* malloc(buffer_size) likewise
HeapPlan(m) == IF m.buffer_size > MemoryLimit THEN "nomap" ELSE m.inp.alloc

\* RegionSize - IMDPROXY_HEADER_SIZE: the mapping is rounded up to whole pages
DetectedBufferSize(size) == ToU(RoundUp(MapSize(size), PageGran) - HeaderWords)

\* lines 387-400 replace buf2
ReplacesBuf2(m) == m.buffer_size # DetectedBufferSize(m.buffer_size) /\ m.buf2.st # "null"

\* alloc_drv_buffer(); m.ret is its return value.  "nomap" stands for the
\* failures before line 374 (the mapping or its view), which leave buf alone.
alloc_drv_buffer(m) ==
    LET plan == AllocPlan(m)
        detected_buffer_size == DetectedBufferSize(m.buffer_size)
        mapped == [m EXCEPT !.region = FreshRegion, !.buf = Zeros(detected_buffer_size)]
        resized ==
            [mapped EXCEPT
                !.buffer_size = detected_buffer_size,
                !.oob = @ \/ (ReplacesBuf2(m) /\ DoubleFree(m.buf2)),
                !.buf2 = IF ~ReplacesBuf2(m) THEN @
                         ELSE IF plan = "nobuf2" THEN [st |-> "null", cap |-> 0]
                         ELSE [st |-> "live", cap |-> detected_buffer_size]]
    IN  IF plan = "nomap" THEN [m EXCEPT !.ret = 2]
        ELSE IF plan = "noquery" THEN [mapped EXCEPT !.ret = 2]
        ELSE IF ReplacesBuf2(m) /\ plan = "nobuf2" THEN [resized EXCEPT !.ret = 2]
        ELSE IF plan = "nolock" THEN [resized EXCEPT !.ret = 3]
        ELSE [resized EXCEPT !.ret = 0, !.locked = TRUE]

\* new_size clamped to ((safeio_size_t)-1) >> 1
ClampSize(new_size) == IF new_size > SizeHalfMax THEN SizeHalfMax ELSE new_size

\* lines 603-631: the driver branch of buf_realloc; existing_buffer_size is
\* taken after buffer_size was set to the new size
DrvReallocDone(m, sized, a) ==
    LET existing_buffer_size == sized.buffer_size
    IN  IF a.ret = 0
        THEN [a EXCEPT !.region = m.region,
                       !.oob = @ \/ m.buf2.st = "freed" \/ ReplacesBuf2(sized),
                       !.buf2 = IF ReplacesBuf2(sized) THEN @ ELSE Free(@)]
        ELSE [a EXCEPT !.region = m.region, !.buf = m.buf,
                       !.buf2 = IF ReplacesBuf2(sized) /\ AllocPlan(sized) \in {"nobuf2", "nolock"}
                                THEN Free(m.buf2) ELSE m.buf2,
                       !.buffer_size = existing_buffer_size]

buf_realloc_drv(m, sized) ==
    DrvReallocDone(m, sized, alloc_drv_buffer([sized EXCEPT !.locked = FALSE]))

\* lines 634-653: the heap branch of buf_realloc
buf_realloc_heap(m, sized) ==
    IF HeapPlan(sized) # "ok" THEN sized
    ELSE [sized EXCEPT !.buf = Zeros(sized.buffer_size),
                       !.oob = @ \/ DoubleFree(m.buf2),
                       !.buf2 = [st |-> "live", cap |-> sized.buffer_size]]

\* every transport treated as the shared-memory one: nothing is reallocated
buf_realloc_noop(m, new_size) == m

\* the early return of lines 589-590 left out: the shared-memory transport
\* reallocates like the socket transport
buf_realloc_any(m, new_size) ==
    LET sized == [m EXCEPT !.buffer_size = ClampSize(new_size)]
    IN  IF transport = "drv" THEN buf_realloc_drv(m, sized)
        ELSE buf_realloc_heap(m, sized)

\* buf_realloc(new_size)
buf_realloc(m, new_size) ==
    IF transport = "shm" THEN m
    ELSE LET sized == [m EXCEPT !.buffer_size = ClampSize(new_size)]
         IN  IF transport = "drv" THEN buf_realloc_drv(m, sized)
             ELSE buf_realloc_heap(m, sized)

---------------------------------------------------------------------------
(* Transports.  m.inp is what the client does during this step: on the     *)
(* socket it is the request being read; on the shared region it is the     *)
(* request the client deposits before its next Request signal.             *)

NoResp == [kind |-> "none", words |-> << >>, payload |-> << >>, flushed |-> FALSE]

CursorBase == IF transport = "drv" THEN DrvHeaderWords ELSE 0

\* shm_read() of n words that do not go to buf; m.ok is the return value
shm_read(m, n) ==
    LET rp == IF m.rp = -1 THEN CursorBase ELSE m.rp
    IN  IF n > HeaderWords - rp
        THEN [m EXCEPT !.rp = rp, !.ok = FALSE]
        ELSE [Touch(m) EXCEPT !.rp = rp + n, !.ok = TRUE,
                              !.words = [i \in 1..n |-> m.region[rp + i]]]

\* shm_write() of the words ws that do not come from buf
shm_write(m, ws) ==
    LET wp == IF m.wp = -1 THEN CursorBase ELSE m.wp
    IN  IF Len(ws) > HeaderWords - wp
        THEN [m EXCEPT !.wp = wp, !.ok = FALSE]
        ELSE [Touch(m) EXCEPT !.wp = wp + Len(ws), !.ok = TRUE,
                       !.region = [i \in 1..HeaderWords |->
                                     IF i > wp /\ i <= wp + Len(ws) THEN ws[i - wp] ELSE @[i]]]

\* comm_read() of a request code ("code") or of offset and length ("hdr")
ShortRead(r, what) == IF r.ok THEN r ELSE [r EXCEPT !.wire.short = what]

comm_read(m, what) ==
    ShortRead(IF transport = "sock"
              THEN IF m.inp.cut = what THEN [m EXCEPT !.ok = FALSE]
                   ELSE [m EXCEPT !.ok = TRUE,
                                  !.arrivals = IF what = "code" THEN @ + 1 ELSE @,
                                  !.wire.rd = @ + QWordSize * (IF what = "code" THEN 1 ELSE 2),
                                  !.words = IF what = "code" THEN << m.inp.code >>
                                            ELSE << m.inp.offset, m.inp.length >>]
              ELSE shm_read(m, IF what = "code" THEN 1 ELSE 2),
              what)

\* comm_read(buf, size): the payload of a write request
comm_read_buf(m, size) ==
    IF transport = "sock"
    THEN IF m.inp.cut = "data" THEN [m EXCEPT !.ok = FALSE]
         ELSE IF size > Len(m.inp.data) THEN [m EXCEPT !.ok = FALSE]
         ELSE [BufStore(m, 0, Slice(m.inp.data, 0, size)) EXCEPT !.ok = TRUE, !.wire.rd = @ + size]
    ELSE [m EXCEPT !.ok = (size <= m.buffer_size)]

\* comm_write() of response words
comm_write(m, ws) ==
    IF transport = "sock"
    THEN IF m.inp.cut = "resp" THEN [m EXCEPT !.ok = FALSE]
         ELSE [m EXCEPT !.ok = TRUE, !.wire.wr = @ + QWordSize * Len(ws)]
    ELSE shm_write(m, ws)

\* comm_write(buf, size)
comm_write_buf(m, size) ==
    IF transport = "sock" THEN [m EXCEPT !.ok = TRUE, !.wire.wr = @ + size]
    ELSE [m EXCEPT !.ok = (size <= m.buffer_size)]

\* the client puts its next request into the region (and its payload into buf)
Deposit(m) ==
    LET base == CursorBase
        req == << m.inp.code, m.inp.offset, m.inp.length >>
        put == [m EXCEPT !.region = [i \in 1..HeaderWords |->
                                        IF i > base /\ i <= base + 3 THEN req[i - base] ELSE @[i]],
                         !.inbox = "fresh", !.arrivals = @ + 1]
    IN  IF m.inp.code = IMDPROXY_REQ_WRITE /\ m.inp.length <= Len(m.buf)
        THEN [put EXCEPT !.buf = Poke(@, 0, m.inp.data)]
        ELSE put

\* Response is signalled and the function returns without the wait
shm_flush_nowait(m) ==
    [m EXCEPT !.rp = -1, !.wp = -1, !.flushed = TRUE, !.wire.held = FALSE, !.ok = TRUE]

\* shm_flush(): signal Response, wait for Request; the client deposits its
\* request before the Request signal that ends the wait
shm_flush(m) ==
    LET f == [m EXCEPT !.rp = -1, !.wp = -1, !.flushed = TRUE, !.wire.held = FALSE]
    IN  IF m.inp.cut = "flush" THEN [f EXCEPT !.ok = FALSE]
        ELSE IF m.inp.cut = "code" THEN [f EXCEPT !.ok = TRUE, !.status = "blocked"]
        ELSE [Deposit(f) EXCEPT !.ok = TRUE, !.wire.held = TRUE]

\* the ERROR_INSUFFICIENT_BUFFER branch of drv_flush, taken as long as the
\* pending write request does not fit
RECURSIVE GrowForWrite(_)

\* lines 543-551: retry the exchange unless the new buffer could not be had
Regrown(a) == IF a.ret = 0 THEN GrowForWrite(a) ELSE a

GrowForWrite(m) ==
    IF m.fatal THEN [m EXCEPT !.ret = 2]    \* the process died earlier in this turn
    ELSE IF ~(m.inp.code = IMDPROXY_REQ_WRITE /\ m.inp.length > Len(m.buf)) THEN [m EXCEPT !.ret = 0]
    ELSE Regrown(alloc_drv_buffer([m EXCEPT !.buffer_size = ToU(2 * @), !.locked = FALSE]))

\* the request is in the region when the exchange returns
Exchanged(g) == IF g.ret # 0 THEN [g EXCEPT !.ok = FALSE] ELSE [Deposit(g) EXCEPT !.ok = TRUE]

\* drv_flush(): Exchange I/O hands over the response and waits for a request
drv_flush(m) ==
    LET f == [m EXCEPT !.rp = -1, !.wp = -1, !.flushed = TRUE,
                       !.wire.bare = @ \/ ~m.locked]
    IN  IF m.inp.cut = "flush" THEN [f EXCEPT !.ok = FALSE]
        \* lines 544-547: ERROR_DEV_NOT_EXIST, return 1 with no request exchanged
        ELSE IF m.inp.cut = "code" THEN [f EXCEPT !.ok = TRUE, !.inbox = "stale",
                                                  !.wire.gone = TRUE]
        ELSE Exchanged(GrowForWrite(f))

\* comm_flush()
comm_flush(m) ==
    IF transport = "shm" THEN shm_flush(m)
    ELSE IF transport = "drv" THEN drv_flush(m)
    ELSE [m EXCEPT !.ok = TRUE, !.flushed = TRUE]

---------------------------------------------------------------------------
(* Protocol engine.  A handler leaves m.status = "loop" when it returns 1  *)
(* and "failed" when it returns 0 (do_comm then returns 1).                *)

\* (off_t_64)(image_offset + req_block.offset): where a request at offset
\* lies in the image
DevicePosition(offset) == ToS(image_offset + offset)

DEF_REQUIRED_ALIGNMENT == 1

\* the flag test left out
IsReadOnlyIgnored == FALSE

\* devio_info.flags & IMDPROXY_FLAG_RO
IsReadOnly == (flags \div IMDPROXY_FLAG_RO) % 2 = 1

\* return 0 after a transport operation failed
Failed(m) == [m EXCEPT !.status = "failed", !.fail = "comm"]

\* return 0 of write_data at line 1079
TooBig(m) == [m EXCEPT !.status = "failed", !.fail = "toobig"]

Answered(m, kind, ws, payload) ==
    [m EXCEPT !.resp = [kind |-> kind, words |-> ws, payload |-> payload, flushed |-> FALSE]]

\* the payload as it lies in buf once received
WithPayload(d) == [d EXCEPT !.req.data = IF d.ok THEN BufLoad(d, 0, d.req.length) ELSE << >>]

\* if (!comm_flush()) return 0; return 1;
Flushed(f) == IF ~f.ok THEN Failed(f) ELSE f

Info == << file_size, DEF_REQUIRED_ALIGNMENT, flags >>

\* lines 690-698
InfoWritten(w) ==
    IF ~w.ok THEN Failed(w) ELSE Flushed(comm_flush(Answered(w, "info", Info, << >>)))

\* send_info()
send_info(m) == InfoWritten(comm_write(m, Info))

\* the request as the handler has read it
WithReq(h, code, data) ==
    [h EXCEPT !.req = [code |-> code, offset |-> h.words[1], length |-> h.words[2],
                       data |-> data]]

\* resp_block of read_data, lines 1016-1033
ReadResponse(r, size) ==
    IF r.ret = -1 THEN << ToU(r.errno), 0 >> ELSE << 0, size >>

\* lines 1044-1057: the payload has been written, the response is flushed
ReadSent(p, ws) ==
    IF ~p.ok THEN Failed(p)
    ELSE Flushed(comm_flush(Answered(p, "rw", ws,
                                     IF ws[1] = 0 THEN BufLoad(p, 0, ws[2]) ELSE << >>)))

\* lines 1035-1051: the payload follows the header when errorno is 0
ReadHeaderSent(w, ws) ==
    IF ~w.ok THEN Failed(w)
    ELSE ReadSent(IF ws[1] = 0 THEN comm_write_buf(w, ws[2]) ELSE w, ws)

\* a failed read ends the session instead of being reported
ReadDoneOrBail(r, size) ==
    IF r.ret = -1 THEN [r EXCEPT !.status = "failed", !.lret = r.ret]
    ELSE ReadHeaderSent(comm_write([r EXCEPT !.lret = r.ret], ReadResponse(r, size)),
                        ReadResponse(r, size))

\* lines 1016-1042; r is the state after logical_read
ReadDone(r, size) == ReadHeaderSent(comm_write([r EXCEPT !.lret = r.ret], ReadResponse(r, size)),
                                    ReadResponse(r, size))

\* lines 1006-1014; g is the state after the buffer was grown (or not)
ReadImage(g) ==
    LET size == IF g.req.length < g.buffer_size THEN g.req.length ELSE g.buffer_size
    IN  ReadDone(logical_read(BufStore(g, 0, Zeros(size)), size,
                              DevicePosition(g.req.offset)), size)

\* the buffer is reallocated for every read request
NeedsReallocAlways(length, size) == TRUE

\* if (req_block.length > buffer_size)
NeedsRealloc(length, size) == length > size

\* lines 989-1004; h is the state after the request header was read
ReadRequested(h) ==
    IF ~h.ok THEN Failed(h)
    ELSE ReadImage(IF NeedsRealloc(h.words[2], h.buffer_size)
                   THEN buf_realloc(WithReq(h, IMDPROXY_REQ_READ, << >>), h.words[2])
                   ELSE WithReq(h, IMDPROXY_REQ_READ, << >>))

\* read_data()
read_data(m) == ReadRequested(comm_read(m, "hdr"))

\* resp_block of write_data, lines 1098-1113
WriteResponse(w) ==
    IF w.ret = -1 THEN << ToU(w.errno), ToU(-1) >> ELSE << 0, w.ret >>

\* lines 1137-1146
WriteSent(c, ws) ==
    IF ~c.ok THEN Failed(c) ELSE Flushed(comm_flush(Answered(c, "rw", ws, << >>)))

\* lines 1089-1135; w is the state after the write was done or refused
WriteDone(w) ==
    WriteSent(comm_write(w, IF IsReadOnly THEN << EBADF, 0 >> ELSE WriteResponse(w)),
              IF IsReadOnly THEN << EBADF, 0 >> ELSE WriteResponse(w))

\* writedone = logical_write(buf, req_block.length, image_offset + req_block.offset)
Written(lw) == [lw EXCEPT !.lret = lw.ret]

\* lines 1082-1096; d is the state after the payload was read
WriteReceived(d) ==
    IF ~d.ok THEN Failed(d)
    ELSE WriteDone(IF IsReadOnly THEN d
                   ELSE Written(logical_write(d, d.req.length,
                                              DevicePosition(d.req.offset))))

\* the read-only test made before the payload is taken off the stream
WriteRequestedRoFirst(h) ==
    IF ~h.ok THEN Failed(h)
    ELSE IF h.words[2] > h.buffer_size
    THEN TooBig(WithReq(h, IMDPROXY_REQ_WRITE, << >>))
    ELSE IF IsReadOnly THEN WriteDone(WithReq(h, IMDPROXY_REQ_WRITE, << >>))
    ELSE WriteReceived(WithPayload(comm_read_buf(WithReq(h, IMDPROXY_REQ_WRITE, << >>),
                                                 h.words[2])))

\* the length test of lines 1075-1080 left out
WriteRequestedUnchecked(h) ==
    IF ~h.ok THEN Failed(h)
    ELSE WriteReceived(WithPayload(comm_read_buf(WithReq(h, IMDPROXY_REQ_WRITE, << >>),
                                                 h.words[2])))

\* lines 1066-1080; h is the state after the request header was read
WriteRequested(h) ==
    IF ~h.ok THEN Failed(h)
    ELSE IF h.words[2] > h.buffer_size
    THEN TooBig(WithReq(h, IMDPROXY_REQ_WRITE, << >>))
    ELSE WriteReceived(WithPayload(comm_read_buf(WithReq(h, IMDPROXY_REQ_WRITE, << >>),
                                                 h.words[2])))

\* write_data()
write_data(m) == WriteRequested(comm_read(m, "hdr"))

\* lines 2210-2216
EnodevWritten(w) ==
    IF ~w.ok THEN Failed(w) ELSE Answered(w, "enodev", << ENODEV >>, << >>)

\* the default branch of the switch in do_comm
unknown_request(m) == EnodevWritten(comm_write(m, << ENODEV >>))

\* a short read of the request code treated like a handler that returns 0
DispatchOrFail(c) ==
    LET code == c.words[1]
        q == [c EXCEPT !.req = [code |-> code, offset |-> 0, length |-> 0, data |-> << >>],
                       !.fresh = (c.inbox = "fresh"),
                       !.inbox = IF transport = "sock" THEN @ ELSE "stale"]
    IN  IF ~c.ok THEN Failed(c)
        ELSE IF code = IMDPROXY_REQ_INFO THEN send_info(q)
        ELSE IF code = IMDPROXY_REQ_READ THEN read_data(q)
        ELSE IF code = IMDPROXY_REQ_WRITE THEN write_data(q)
        ELSE unknown_request(q)

\* lines 2195-2217; c is the state after the request code was read
Dispatch(c) ==
    LET code == c.words[1]
        q == [c EXCEPT !.req = [code |-> code, offset |-> 0, length |-> 0, data |-> << >>],
                       !.fresh = (c.inbox = "fresh"),
                       !.inbox = IF transport = "sock" THEN @ ELSE "stale"]
    IN  IF ~c.ok THEN [c EXCEPT !.status = "closed", !.fail = "comm"]
        ELSE IF code = IMDPROXY_REQ_INFO THEN send_info(q)
        ELSE IF code = IMDPROXY_REQ_READ THEN read_data(q)
        ELSE IF code = IMDPROXY_REQ_WRITE THEN write_data(q)
        ELSE unknown_request(q)

\* one turn of the for (;;) loop of do_comm
do_comm_turn(m) == Dispatch(comm_read(m, "code"))

---------------------------------------------------------------------------
(* Images and initial states *)

BlockSize == sector_size * Pow2(BlockSectorsLog)
InitBuffer == Pow2(InitBufferLog)
TableOffset == FooterSize + HeaderSize
\* the BAT is padded with unused entries (at least one)
BatBytes == RoundUp(4 * (NumBlocks + 1), sector_size)
DataStart == TableOffset + BatBytes

\* the footer as read at startup (first sizeof(vhd_info.Footer) bytes of the file)
FooterBytes == [i \in 1..FooterSize |-> 192 + i]

\* a dynamic VHD: footer copy, header, BAT, the blocks listed in alloc, footer
VhdImage(alloc) ==
    LET bat == [i \in 1..BatBytes |->
                   LET e == (i - 1) \div 4
                       pos == IF e < NumBlocks
                              THEN { k \in 1..Len(alloc) : alloc[k] = e } ELSE {}
                   IN  IF pos = {} THEN 255
                       ELSE LET k == CHOOSE k \in pos : TRUE
                                sector == (DataStart + (k - 1) * (sector_size + BlockSize))
                                              \div sector_size
                            IN  BE32Bytes(sector)[((i - 1) % 4) + 1]]
        blocks == [i \in 1..(Len(alloc) * (sector_size + BlockSize)) |->
                      LET o == (i - 1) % (sector_size + BlockSize)
                      IN  IF o = 0 THEN 255 ELSE IF o < sector_size THEN 0 ELSE 16 + o]
    IN  FooterBytes \o Zeros(HeaderSize) \o bat \o blocks \o FooterBytes

RawLen == 3 * sector_size
RawImage == [i \in 1..RawLen |-> i]

\* lines 1389-1432 and 1579-1580: what bootstrap derives from the image;
\* size is devio_info.file_size, the bytes exported from off on
InitExtent(vhd, img, off, size) ==
    /\ vhd_mode = vhd
    /\ file = img
    /\ image_offset = off
    /\ current_size = IF vhd THEN NumBlocks * BlockSize ELSE Len(img)
    /\ file_size = size
    /\ block_size = IF vhd THEN BlockSize ELSE 0
    /\ block_shift = IF vhd THEN CHOOSE b \in 0..WordBits : Pow2(b) = BlockSize ELSE 0
    /\ table_offset = IF vhd THEN TableOffset ELSE 0
    /\ footer = IF vhd THEN Slice(img, 0, FooterSize) ELSE << >>
    \* line 1401: VHD I/O uses a secondary buffer
    /\ buf2 = IF vhd THEN [st |-> "live", cap |-> DetectedBufferSize(InitBuffer)]
              ELSE [st |-> "null", cap |-> 0]

\* the whole image from off on
InitImage(vhd, img, off) ==
    InitExtent(vhd, img, off, (IF vhd THEN NumBlocks * BlockSize ELSE Len(img)) - off)

NoReq == [code |-> -1, offset |-> 0, length |-> 0, data |-> << >>]
NoWire == [rd |-> 0, wr |-> 0, short |-> "none", gone |-> FALSE, held |-> FALSE,
           stray |-> FALSE, bare |-> FALSE]

\* the server stays woken from one turn of the loop to the next
Carried(w) == [NoWire EXCEPT !.held = w.held]
NoPrev == [code |-> -1, offset |-> 0, length |-> 0, data |-> << >>, clean |-> TRUE,
           gone |-> FALSE]

\* do_comm up to the for (;;) loop: the buffer of each transport
InitComm(tr) ==
    /\ transport = tr
    /\ buffer_size = IF tr = "sock" THEN InitBuffer ELSE DetectedBufferSize(InitBuffer)
    /\ buf = Zeros(buffer_size)
    /\ region = FreshRegion
    /\ shm_readptr = -1
    /\ shm_writeptr = -1
    /\ inbox = IF tr = "sock" THEN "fresh" ELSE "stale"
    /\ locked = (tr = "drv")
    /\ errno = 0
    /\ pc = "start"
    /\ arrivals = 0
    /\ lastReq = NoReq @@ [fresh |-> FALSE]
    /\ lastResp = NoResp
    /\ ioLog = << >>
    /\ lret = -2
    /\ faulted = FALSE
    /\ fail = "none"
    /\ prev = NoPrev
    /\ wire = NoWire

\* the server processes that may be started on the same name
NumServers == 2
Procs == 1..NumServers

\* no server started yet; no named object exists
NoServer ==
    [at |-> [p \in Procs |-> "idle"], code |-> [p \in Procs |-> 0],
     maph |-> {}, mutexh |-> {}, owner |-> 0, abandoned |-> FALSE]

\* one server, through do_comm_shm up to the wait for the first Request
SoleServer ==
    [NoServer EXCEPT !.at[1] = "wait", !.maph = {1}, !.mutexh = {1}, !.owner = 1]

---------------------------------------------------------------------------
(* Bootstrap: main from the size argument to the hand-off to do_comm.      *)
(* A partition table is kept as its parsed fields, the LBA fields as the   *)
(* four bytes found in the sector.                                         *)

\* little-endian 32-bit load from four bytes
GetLittleEndian32U(b) == b[1] + 256 * b[2] + 65536 * b[3] + 16777216 * b[4]

\* the four bytes a partitioning tool stores for n
Le32(n) == << n % 256, (n \div 256) % 256, (n \div 65536) % 256, n \div 16777216 >>

\* the shift left out
SectorsUnshifted(n) == n

\* ((off_t_64) x) << sector_shift
Sectors(n) == n * sector_size

Entry(flag, type, start, count) ==
    [flag |-> flag, type |-> type, start |-> Le32(start), count |-> Le32(count)]
NoEntry == Entry(0, 0, 0, 0)

BootSig == << 85, 170 >>
Table(e1, e2, e3, e4) == [sig |-> BootSig, e |-> << e1, e2, e3, e4 >>]

\* lines 1591-1596 and 1636-1642: signature 55 AA and every boot flag 00 or 80
ValidTable(t) == t.sig = BootSig /\ \A i \in 1..4 : t.e[i].flag % 128 = 0

IsExtended(type) == type \in {5, 15}

\* sectors of the images
DiskSectors == 8
DiskBytes == Sectors(DiskSectors)

\* logical_read(.., 512, off) of a sector that holds a partition table
TableAt(d, off) == IF off \in DOMAIN d THEN d[off] ELSE [sig |-> << 0, 0 >>, e |-> << >>]
Readable(d, off) == off \in DOMAIN d

\* entries as partitioning tools write them: type 83 (hex) and type 05
Primary(flag, start, count) == Entry(flag, 131, start, count)
Extended(start, count) == Entry(0, 5, start, count)

\* the images: byte offset of a table sector |-> table
Disks ==
    { \* nothing readable at sector 0
      [o \in {} |-> NoEntry],
      \* no signature
      [o \in {0} |-> [Table(Primary(0, 1, 2), NoEntry, NoEntry, NoEntry)
                         EXCEPT !.sig = << 0, 0 >>]],
      \* a boot flag that is neither 00 nor 80
      [o \in {0} |-> Table(Primary(1, 1, 2), NoEntry, NoEntry, NoEntry)],
      \* two primary partitions, the second after an empty entry
      [o \in {0} |-> Table(Primary(128, 1, 3), NoEntry,
                           Primary(0, 4, DiskSectors - 4), NoEntry)],
      \* a primary partition at LBA 0, and one that runs past the end
      [o \in {0} |-> Table(Primary(0, 0, 2), Primary(0, 4, DiskSectors),
                           NoEntry, NoEntry)],
      \* an entry of no sectors
      [o \in {0} |-> Table(Primary(0, 2, 0), NoEntry, NoEntry, NoEntry)],
      \* an extended partition at LBA 2 with two logical partitions, then a
      \* primary one
      [o \in {0, Sectors(2), Sectors(4)} |->
         IF o = 0 THEN Table(Extended(2, 5), Primary(0, 7, 1), NoEntry, NoEntry)
         ELSE IF o = Sectors(2)
         THEN Table(Primary(0, 1, 1), Extended(2, 2), NoEntry, NoEntry)
         ELSE Table(Primary(0, 1, 1), NoEntry, NoEntry, NoEntry)],
      \* an extended partition whose first EBR is not valid, then a primary one
      [o \in {0} |-> Table(Entry(0, 15, 2, 2), Primary(0, 4, 2), NoEntry, NoEntry)] }

\* a size or offset argument: digits and the character after them
NoArg == [given |-> FALSE, n |-> 0, suf |-> ""]
Arg(n, suf) == [given |-> TRUE, n |-> n, suf |-> suf]

SizeArgs ==
    { NoArg, Arg(0, ""), Arg(1, ""), Arg(2, ""), Arg(3, ""), Arg(4, ""), Arg(512, ""),
      Arg(DiskBytes, "B"), Arg(2 * DiskBytes, "B"), Arg(1, "K"), Arg(1, "k"), Arg(3, "?") }

OffsetArgs == { NoArg, Arg(0, ""), Arg(1, ""), Arg(sector_size, "B"), Arg(1, "k") }

\* lines 1446-1468 and 1727-1749: the switch on the suffix, with its fall-through
RECURSIVE Pow(_, _)
Pow(b, k) == IF k = 0 THEN 1 ELSE b * Pow(b, k - 1)

Suffixed(n, suf) ==
    CASE suf = "T" -> n * Pow(1024, 4)
      [] suf = "G" -> n * Pow(1024, 3)
      [] suf = "M" -> n * Pow(1024, 2)
      [] suf = "K" -> n * 1024
      [] suf = "t" -> n * Pow(1000, 4)
      [] suf = "g" -> n * Pow(1000, 3)
      [] suf = "m" -> n * Pow(1000, 2)
      [] suf = "k" -> n * 1000
      [] OTHER -> n

\* line 1474 and line 1587: what a bare number below this is
PartitionLimit == 512

\* spec_size << 9 and offset64 <<= 9: a count of sectors
Blocks(n) == Sectors(n)

\* the entry the walk stopped at: for a logical partition also the offset
\* of the EBR that holds the entry (ebr) and of the first EBR of its chain
NoHit == [kind |-> "none", start |-> 0, count |-> 0, ebr |-> 0, first |-> 0]

HandedOff ==
    [stage |-> "handoff", size |-> NoArg, offset |-> NoArg, disk |-> [o \in {} |-> NoEntry],
     statOk |-> TRUE, partition_number |-> 0, hit |-> NoHit, applied |-> FALSE, code |-> 0,
     ebrs |-> << >>, links |-> << >>]

\* lines 1439-1486: argv[3]
ParseSize ==
    /\ boot.stage = "args"
    /\ file_size' = IF ~boot.size.given THEN file_size
                    ELSE IF boot.size.suf # "" THEN Suffixed(boot.size.n, boot.size.suf)
                    ELSE IF boot.size.n < PartitionLimit THEN file_size
                    ELSE Blocks(boot.size.n)
    /\ boot' = [boot EXCEPT !.stage = "sized",
                            !.partition_number =
                                IF ~boot.size.given THEN 1
                                ELSE IF boot.size.suf = "" /\ boot.size.n < PartitionLimit
                                THEN boot.size.n
                                ELSE @]
    /\ UNCHANGED << image_offset, current_size >>
    /\ UNCHANGED << protocolRest, srv >>

\* lines 1563-1580: the size of the image file unless a size is known, and
\* current_size unless the VHD footer gave it
DetectedSize == IF file_size # 0 THEN file_size ELSE IF boot.statOk THEN DiskBytes ELSE 0

DetectSize ==
    /\ boot.stage = "sized"
    /\ file_size' = DetectedSize
    /\ current_size' = IF current_size = 0 THEN DetectedSize ELSE current_size
    /\ boot' = [boot EXCEPT !.stage = "detected"]
    /\ UNCHANGED image_offset
    /\ UNCHANGED << protocolRest, srv >>

\* the walk keeps c, image_offset and file_size in w; w.next is read_next_ebr
\* and w.stop the break out of the loop over the MBR
RECURSIVE EbrEntries(_, _, _, _), EbrChain(_, _, _), MbrEntries(_, _, _, _)

\* lines 1661-1663: the EBR a link entry leads to
NextEbr(first, start) == first + Sectors(start)

\* the start of a logical partition counted from the first EBR
LogicalStartFromFirst(at, first, start) == first + Sectors(start)

\* lines 1674-1676: image_offset += start << sector_shift, image_offset
\* being the offset of the EBR that is walked (at)
LogicalStart(at, first, start) == at + Sectors(start)

\* lines 1650-1686: the entries of one EBR from entry e on
EbrEntries(w, first, t, e) ==
    IF e > 4 THEN w
    ELSE IF t.e[e].type = 0 THEN EbrEntries(w, first, t, e + 1)
    ELSE IF IsExtended(t.e[e].type)
    THEN [w EXCEPT !.image_offset = NextEbr(first, GetLittleEndian32U(t.e[e].start)),
                   !.links = Append(@, GetLittleEndian32U(t.e[e].start)),
                   !.next = TRUE]
    ELSE IF w.c + 1 = w.partition_number
    THEN [w EXCEPT !.c = @ + 1,
                   !.image_offset = LogicalStart(@, first, GetLittleEndian32U(t.e[e].start)),
                   !.file_size = Sectors(GetLittleEndian32U(t.e[e].count)),
                   !.hit = [kind |-> "logical",
                            start |-> GetLittleEndian32U(t.e[e].start),
                            count |-> GetLittleEndian32U(t.e[e].count),
                            ebr |-> w.image_offset, first |-> first]]
    ELSE EbrEntries([w EXCEPT !.c = @ + 1], first, t, e + 1)

\* lines 1626-1687: while (read_next_ebr)
Chained(d, r, first) == IF r.next THEN EbrChain(d, r, first) ELSE r

EbrChain(d, w, first) ==
    IF ~(Readable(d, w.image_offset) /\ ValidTable(TableAt(d, w.image_offset)))
    THEN [w EXCEPT !.ebrs = Append(@, w.image_offset)]
    ELSE Chained(d, EbrEntries([w EXCEPT !.next = FALSE, !.ebrs = Append(@, w.image_offset)],
                               first, TableAt(d, w.image_offset), 1), first)

\* lines 1607-1703: the entries of the MBR from entry i on
MbrEntries(d, w, t, i) ==
    IF i > 4 THEN w
    ELSE IF t.e[i].type = 0 THEN MbrEntries(d, w, t, i + 1)
    ELSE IF IsExtended(t.e[i].type)
    THEN MbrEntries(d,
                    EbrChain(d, [w EXCEPT !.image_offset =
                                              Sectors(GetLittleEndian32U(t.e[i].start)),
                                          !.ebrs = << >>, !.links = << >>],
                             Sectors(GetLittleEndian32U(t.e[i].start))),
                    t, i + 1)
    ELSE IF w.c + 1 = w.partition_number
    THEN [w EXCEPT !.c = @ + 1,
                   !.image_offset = Sectors(GetLittleEndian32U(t.e[i].start)),
                   !.file_size = Sectors(GetLittleEndian32U(t.e[i].count)),
                   !.hit = [kind |-> "primary",
                            start |-> GetLittleEndian32U(t.e[i].start),
                            count |-> GetLittleEndian32U(t.e[i].count),
                            ebr |-> 0, first |-> 0]]
    ELSE MbrEntries(d, [w EXCEPT !.c = @ + 1], t, i + 1)

\* lines 1598-1703, from "Detected a master boot record": image_offset = 0
Walk ==
    MbrEntries(boot.disk,
               [c |-> 0, image_offset |-> 0, file_size |-> file_size, next |-> FALSE,
                partition_number |-> boot.partition_number, hit |-> NoHit,
                ebrs |-> << >>, links |-> << >>],
               TableAt(boot.disk, 0), 1)

\* the test of image_offset + file_size against current_size left out
NotFoundUnchecked(w) == w.file_size = 0

\* lines 1706-1713
NotFound(w) ==
    \/ w.file_size = 0
    \/ current_size # 0 /\ w.image_offset + w.file_size > current_size

Walked(w) ==
    /\ image_offset' = w.image_offset
    /\ file_size' = w.file_size
    /\ boot' = IF NotFound(w)
               THEN [boot EXCEPT !.stage = "exited", !.code = 1, !.hit = w.hit,
                                 !.ebrs = w.ebrs, !.links = w.links]
               ELSE [boot EXCEPT !.stage = "walked", !.hit = w.hit,
                                 !.ebrs = w.ebrs, !.links = w.links]

\* lines 1587-1719
WalkPartitions ==
    /\ boot.stage = "detected"
    /\ IF /\ boot.partition_number >= 1 /\ boot.partition_number < PartitionLimit
          /\ Readable(boot.disk, 0) /\ ValidTable(TableAt(boot.disk, 0))
       THEN Walked(Walk)
       ELSE /\ boot' = [boot EXCEPT !.stage = "walked"]
            /\ UNCHANGED << image_offset, file_size >>
    /\ UNCHANGED current_size
    /\ UNCHANGED << protocolRest, srv >>

\* lines 1721-1764: argv[4], looked at only while image_offset is 0
ParseOffset ==
    /\ boot.stage = "walked"
    /\ image_offset' = IF image_offset = 0 /\ boot.offset.given
                       THEN IF boot.offset.suf # ""
                            THEN Suffixed(boot.offset.n, boot.offset.suf)
                            ELSE Blocks(boot.offset.n)
                       ELSE image_offset
    /\ boot' = [boot EXCEPT !.stage = "handoff",
                            !.applied = (image_offset = 0 /\ boot.offset.given)]
    /\ UNCHANGED << file_size, current_size >>
    /\ UNCHANGED << protocolRest, srv >>

\* main up to line 1438: the image is open and, for a dynamic VHD of
\* DiskSectors sectors, current_size and file_size are those of the footer
InitBoot ==
    /\ vhd_mode \in BOOLEAN
    /\ file = RawImage
    /\ image_offset = 0
    /\ current_size = (IF vhd_mode THEN DiskBytes ELSE 0)
    /\ file_size = (IF vhd_mode THEN DiskBytes ELSE 0)
    /\ block_size = 0 /\ block_shift = 0 /\ table_offset = 0 /\ footer = << >>
    /\ buf2 = [st |-> "null", cap |-> 0]
    /\ InitComm("sock")
    /\ srv = SoleServer
    /\ dll_mode = FALSE
    /\ flags = 0
    /\ \E s \in SizeArgs, o \in OffsetArgs, d \in Disks, ok \in BOOLEAN :
          boot = [HandedOff EXCEPT !.stage = "args", !.size = s, !.offset = o, !.disk = d,
                                   !.statOk = ok]

NextBoot == ParseSize \/ DetectSize \/ WalkPartitions \/ ParseOffset

SpecBoot == InitBoot /\ [][NextBoot]_vars

\* ---- main, lines 1598-1715: the walk, one table at a time ----

\* images whose link entries come back to an EBR already read
CyclicDisks ==
    { \* the first EBR links to itself
      [o \in {0, Sectors(2)} |->
         IF o = 0 THEN Table(Extended(2, 5), Primary(0, 7, 1), NoEntry, NoEntry)
         ELSE Table(Extended(0, 2), NoEntry, NoEntry, NoEntry)],
      \* two EBRs that link to each other
      [o \in {0, Sectors(2), Sectors(4)} |->
         IF o = 0 THEN Table(Primary(0, 1, 1), Extended(2, 5), NoEntry, NoEntry)
         ELSE IF o = Sectors(2)
         THEN Table(Extended(2, 2), NoEntry, NoEntry, NoEntry)
         ELSE Table(Extended(0, 2), NoEntry, NoEntry, NoEntry)],
      \* two EBRs that link to each other, a logical partition in each
      [o \in {0, Sectors(2), Sectors(4)} |->
         IF o = 0 THEN Table(Extended(2, 5), NoEntry, NoEntry, NoEntry)
         ELSE IF o = Sectors(2)
         THEN Table(Primary(0, 1, 1), Extended(2, 2), NoEntry, NoEntry)
         ELSE Table(Primary(0, 1, 1), Extended(0, 2), NoEntry, NoEntry)] }

\* the largest partition number asked for
MaxPartition == 4

\* line 1604: a master boot record was detected, image_offset = 0, c = 0 and
\* the loop over its entries is about to start at boot.i
InitWalk ==
    /\ vhd_mode = FALSE
    /\ file = RawImage
    /\ image_offset = 0
    /\ file_size \in {0, DiskBytes}
    /\ current_size = file_size
    /\ block_size = 0 /\ block_shift = 0 /\ table_offset = 0 /\ footer = << >>
    /\ buf2 = [st |-> "null", cap |-> 0]
    /\ InitComm("sock")
    /\ srv = SoleServer
    /\ dll_mode = FALSE
    /\ flags = 0
    /\ \E d \in Disks \cup CyclicDisks, n \in 1..MaxPartition :
          /\ Readable(d, 0) /\ ValidTable(TableAt(d, 0))
          /\ boot = [stage |-> "mbr", disk |-> d, partition_number |-> n, i |-> 1,
                     first |-> 0, code |-> 0, turn |-> 0,
                     w |-> [c |-> 0, image_offset |-> 0, file_size |-> file_size,
                            next |-> FALSE, partition_number |-> n, hit |-> NoHit,
                            ebrs |-> << >>, links |-> << >>]]

\* lines 1607-1703: one turn of the loop over the entries of the MBR, up to
\* the while loop if the entry is an extended partition
MbrEntry ==
    /\ boot.stage = "mbr" /\ boot.i <= 4
    /\ LET t == TableAt(boot.disk, 0)
           i == boot.i
           w == boot.w
       IN  boot' =
             IF t.e[i].type = 0 THEN [boot EXCEPT !.i = @ + 1]
             ELSE IF IsExtended(t.e[i].type)
             THEN [boot EXCEPT !.stage = "ebr",
                               !.first = Sectors(GetLittleEndian32U(t.e[i].start)),
                               !.w.image_offset = Sectors(GetLittleEndian32U(t.e[i].start))]
             ELSE IF w.c + 1 = w.partition_number
             THEN [boot EXCEPT !.i = 5,
                               !.w.c = @ + 1,
                               !.w.image_offset = Sectors(GetLittleEndian32U(t.e[i].start)),
                               !.w.file_size = Sectors(GetLittleEndian32U(t.e[i].count)),
                               !.w.hit = [kind |-> "primary",
                                          start |-> GetLittleEndian32U(t.e[i].start),
                                          count |-> GetLittleEndian32U(t.e[i].count),
                                          ebr |-> 0, first |-> 0]]
             ELSE [boot EXCEPT !.i = @ + 1, !.w.c = @ + 1]
    /\ UNCHANGED << image_offset, file_size, current_size >>
    /\ UNCHANGED << protocolRest, srv >>

\* the tables read are not kept from one turn to the next
Forgetful(w) == [w EXCEPT !.ebrs = << >>, !.links = << >>]

\* lines 1626-1687: one turn of while (read_next_ebr); boot.turn is the
\* parity of the number of tables read so far
ReadEbr ==
    /\ boot.stage = "ebr"
    /\ LET w == boot.w
           r == Forgetful(EbrEntries([w EXCEPT !.next = FALSE], boot.first,
                                     TableAt(boot.disk, w.image_offset), 1))
       IN  boot' =
             IF ~(Readable(boot.disk, w.image_offset)
                    /\ ValidTable(TableAt(boot.disk, w.image_offset)))
             THEN [boot EXCEPT !.stage = "mbr", !.i = @ + 1, !.turn = 1 - @]
             ELSE IF r.next
             THEN [boot EXCEPT !.w = r, !.turn = 1 - @]
             ELSE [boot EXCEPT !.stage = "mbr", !.i = @ + 1, !.w = r, !.turn = 1 - @]
    /\ UNCHANGED << image_offset, file_size, current_size >>
    /\ UNCHANGED << protocolRest, srv >>

\* lines 1706-1715: the loop over the MBR is left
EndOfWalk ==
    /\ boot.stage = "mbr" /\ boot.i > 4
    /\ image_offset' = boot.w.image_offset
    /\ file_size' = boot.w.file_size
    /\ boot' = [boot EXCEPT !.stage = "done", !.code = IF NotFound(boot.w) THEN 1 ELSE 0]
    /\ UNCHANGED current_size
    /\ UNCHANGED << protocolRest, srv >>

NextWalk == MbrEntry \/ ReadEbr \/ EndOfWalk

\* the process runs as long as it has something to do
SpecWalk == InitWalk /\ [][NextWalk]_vars /\ WF_vars(NextWalk)

\* ---- main, lines 1395-1424: the sizes of a dynamic VHD ----

\* bits of a byte and bytes of an int64_t, scaled
OctetBits == 2
Int64Octets == 4
OctetMod == Pow2(OctetBits)
Int64Mod == Pow2(OctetBits * Int64Octets)

\* (int64_t)storage[i]: storage is int8_t *, so the byte is sign-extended
Widen(b) == IF b >= OctetMod \div 2 THEN b - OctetMod ELSE b

\* the bits of a signed value in an int64_t, and the value of such bits
Pattern(x) == x % Int64Mod
Signed(p) == IF p >= Int64Mod \div 2 THEN p - Int64Mod ELSE p

\* a | b on bit patterns
RECURSIVE BitOr(_, _)
BitOr(a, b) ==
    IF a = 0 THEN b
    ELSE IF b = 0 THEN a
    ELSE (IF a % 2 = 1 \/ b % 2 = 1 THEN 1 ELSE 0) + 2 * BitOr(a \div 2, b \div 2)

\* lines 216-219: the loop of GetBigEndian64 from byte i on (the shift of a
\* negative value gives the two's complement result in every build)
RECURSIVE BigEndianFrom(_, _, _)
BigEndianFrom(storage, i, number) ==
    IF i >= Int64Octets THEN number
    ELSE BigEndianFrom(storage, i + 1,
                       BitOr(number, Pattern(Widen(storage[i + 1])
                                               * Pow2((Int64Octets - i - 1) * OctetBits))))

GetBigEndian64(storage) == Signed(BigEndianFrom(storage, 0, 0))

\* the integer whose big-endian representation is the bytes of storage
RECURSIVE BigEndianValue(_, _)
BigEndianValue(storage, n) ==
    IF n = 0 THEN 0 ELSE BigEndianValue(storage, n - 1) * OctetMod + storage[n]

\* a field with byte v in place k and zero elsewhere
Octets(k, v) == [i \in 1..Int64Octets |-> IF i = k THEN v ELSE 0]

\* Footer.CurrentSize: every byte value in every place
CurrentSizeFields == [1..Int64Octets -> 0..(OctetMod - 1)]
\* Header.TableOffset
TableOffsetFields ==
    { Octets(Int64Octets, 1), Octets(Int64Octets, OctetMod \div 2), Octets(1, OctetMod \div 2) }

\* lines 1409-1423, "Calculate vhd shifts"
CalculateShifts ==
    /\ boot.stage = "detected"
    /\ current_size' = GetBigEndian64(boot.CurrentSize)
    /\ table_offset' = GetBigEndian64(boot.TableOffset)
    /\ block_size' = BE32(boot.BlockSize)
    /\ block_shift' = CHOOSE b \in 0..WordBits : b = WordBits \/ Pow2(b) = block_size'
    /\ file_size' = current_size'
    /\ boot' = [boot EXCEPT !.stage = "shifts"]
    /\ UNCHANGED << file, dll_mode, vhd_mode, flags, image_offset, footer, transport,
                    buffer_size, buf, buf2, region, shm_readptr, shm_writeptr, inbox, errno,
                    pc, arrivals, lastReq, lastResp, ioLog, lret, faulted, fail, prev,
                    locked, wire, srv >>

\* a file that carries the cookie and disk type of a dynamic VHD, before the
\* fields of its footer and header are decoded
InitShifts ==
    /\ vhd_mode = TRUE
    /\ file = VhdImage(<< >>)
    /\ image_offset = 0
    /\ current_size = 0 /\ file_size = 0
    /\ block_size = 0 /\ block_shift = 0 /\ table_offset = 0
    /\ footer = FooterBytes
    /\ buf2 = [st |-> "live", cap |-> InitBuffer]
    /\ InitComm("sock")
    /\ srv = SoleServer
    /\ dll_mode = FALSE
    /\ flags = 0
    /\ \E c \in CurrentSizeFields, t \in TableOffsetFields :
          boot = [stage |-> "detected", CurrentSize |-> c, TableOffset |-> t,
                  BlockSize |-> BE32Bytes(BlockSize)]

SpecShifts == InitShifts /\ [][CalculateShifts]_vars

VhdImages == { VhdImage(<< >>), VhdImage(<< NumBlocks - 1 >>) }

InitVhd ==
    /\ \E img \in VhdImages : InitImage(TRUE, img, 0)
    /\ InitComm("sock")
    /\ srv = SoleServer
    /\ boot = HandedOff
    /\ dll_mode \in BOOLEAN
    /\ flags \in {0, IMDPROXY_FLAG_RO}

InitRaw ==
    \* the image from off on, or a partition of one sector at off
    /\ \E off \in {0, sector_size} :
          \/ InitImage(FALSE, RawImage, off)
          \/ InitExtent(FALSE, RawImage, off, sector_size)
    /\ InitComm("sock")
    /\ srv = SoleServer
    /\ boot = HandedOff
    /\ dll_mode \in BOOLEAN
    /\ flags \in {0, IMDPROXY_FLAG_RO}

InitAll ==
    /\ \/ \E img \in VhdImages : InitImage(TRUE, img, 0)
       \/ InitImage(FALSE, RawImage, 0)
    /\ \E tr \in {"sock", "shm", "drv"} : InitComm(tr)
    /\ srv = SoleServer
    /\ boot = HandedOff
    /\ dll_mode = FALSE
    /\ flags \in {0, IMDPROXY_FLAG_RO}

---------------------------------------------------------------------------
(* What the client and the environment may do during one turn *)

MaxFaultAt == 5

Faults(maxAt) ==
    { NoFault, [kind |-> "nomem", at |-> 0, n |-> 0] }
    \cup { [kind |-> "err", at |-> k, n |-> 0] : k \in 1..maxAt }
    \cup { [kind |-> "short", at |-> k, n |-> 1] : k \in 1..maxAt }

ReqOffsets == { 0, BlockSize - 1, BlockSize, NumBlocks * BlockSize, WordMod - 1 }
ReadLengths == { 0, 1, BlockSize + 1, InitBuffer + PageGran, MemoryLimit, WordMod - 1 }
WriteLengths == { 0, 1, BlockSize + 1, InitBuffer + PageGran }

Payloads(n) ==
    IF n > InitBuffer THEN { Fill(n, 170) }
    ELSE { Zeros(n), Fill(n, 170) }

Request(c, o, l, d) == [code |-> c, offset |-> o, length |-> l, data |-> d]

\* what a client may send down the socket
Requests ==
    { Request(IMDPROXY_REQ_INFO, 0, 0, << >>) }
    \cup { Request(0, o, 0, << >>) : o \in {0, IMDPROXY_REQ_READ} }
    \cup { Request(IMDPROXY_REQ_READ, o, l, << >>) : o \in ReqOffsets, l \in ReadLengths }
    \cup UNION { { Request(IMDPROXY_REQ_WRITE, o, l, d) : o \in ReqOffsets, d \in Payloads(l) } :
                 l \in WriteLengths }

\* what a client may put into the shared region
Deposits ==
    { Request(IMDPROXY_REQ_INFO, 0, 0, << >>) }
    \cup { Request(0, o, 0, << >>) : o \in {0, IMDPROXY_REQ_READ} }
    \cup { Request(IMDPROXY_REQ_READ, 0, l, << >>) : l \in ReadLengths \ {0} }
    \cup { Request(IMDPROXY_REQ_WRITE, 0, l, Fill(l, 170)) : l \in WriteLengths \ {0} }

\* the requests whose handling is also tried with a failing backing store
FaultProne(r) ==
    \/ /\ r.offset \in {0, BlockSize - 1} /\ r.length \in {1, BlockSize + 1}
       /\ (r.code = IMDPROXY_REQ_WRITE => ~AllZero(r.data))
    \/ /\ transport = "shm" /\ r.code = IMDPROXY_REQ_READ
       /\ r.offset = 0 /\ r.length = InitBuffer + PageGran

\* the request the next turn will dispatch when it comes from the region
Pending ==
    LET rp == IF shm_readptr = -1 THEN CursorBase ELSE shm_readptr
        w(i) == IF rp + i <= HeaderWords THEN region[rp + i] ELSE 0
    IN  Request(w(1), w(2), w(3), << >>)

Env(f, a, c) == [fault |-> f, alloc |-> a, cut |-> c]

AllocPlans == { "ok", "nomap", "noquery", "nobuf2", "nolock" }

\* the environments that make a difference to the handling of request r
Envs(r) ==
    LET rw == r.code \in {IMDPROXY_REQ_READ, IMDPROXY_REQ_WRITE}
        io == rw /\ ~(r.code = IMDPROXY_REQ_WRITE /\ (IsReadOnly \/ r.length > buffer_size))
        grows == r.code = IMDPROXY_REQ_READ /\ r.length > buffer_size /\ transport # "shm"
        plans == IF ~grows THEN {"ok"}
                 ELSE IF transport = "drv" THEN AllocPlans ELSE {"ok", "nomap"}
        faults == IF ~io \/ ~FaultProne(r) THEN {NoFault}
                  ELSE IF vhd_mode THEN Faults(MaxFaultAt) ELSE Faults(1)
        cuts == IF transport = "sock"
                THEN {"resp"} \cup (IF rw THEN {"hdr"} ELSE {})
                     \cup (IF r.code = IMDPROXY_REQ_WRITE /\ r.length <= buffer_size
                           THEN {"data"} ELSE {})
                ELSE {"flush"}
    IN  { Env(f, a, "none") : f \in faults, a \in plans }
        \cup { Env(NoFault, "ok", c) : c \in cuts }

Gone == [code |-> 0, offset |-> 0, length |-> 0, data |-> << >>,
         fault |-> NoFault, alloc |-> "ok", cut |-> "code"]

Input(r, e) == [code |-> r.code, offset |-> r.offset, length |-> r.length, data |-> r.data,
                fault |-> e.fault, alloc |-> e.alloc, cut |-> e.cut]

\* on the socket the request read in this turn is the client's move; on the
\* shared region the client moves when the server flushes
Inputs ==
    IF transport = "sock"
    THEN IF arrivals >= MaxRequests THEN { Gone }
         ELSE { Gone } \cup UNION { { Input(r, e) : e \in Envs(r) } : r \in Requests }
    ELSE IF arrivals >= MaxRequests
         THEN { [Gone EXCEPT !.fault = e.fault, !.alloc = e.alloc] : e \in Envs(Pending) }
         ELSE { Gone } \cup UNION { { Input(r, e) : e \in Envs(Pending) } : r \in Deposits }

---------------------------------------------------------------------------
(* Actions *)

Machine(inp) ==
    [file |-> file, errno |-> errno, buf |-> buf, buffer_size |-> buffer_size, buf2 |-> buf2,
     region |-> region, rp |-> shm_readptr, wp |-> shm_writeptr, inbox |-> inbox,
     dll |-> dll_mode,
     locked |-> locked, arrivals |-> arrivals, inp |-> inp, fault |-> inp.fault,
     nio |-> 0, ioLog |-> << >>, oob |-> FALSE, fatal |-> FALSE, ret |-> 0, rd |-> << >>, ok |-> TRUE,
     words |-> << >>, flushed |-> FALSE, status |-> "loop", resp |-> NoResp, lret |-> -2,
     req |-> NoReq, fresh |-> FALSE, faulted |-> FALSE, fail |-> "none",
     wire |-> Carried(wire)]

\* the state the process is left in by the turn that ended as m
Outcome(m, crash) ==
    /\ file' = m.file
    /\ errno' = m.errno
    /\ buf' = m.buf
    /\ buffer_size' = m.buffer_size
    /\ buf2' = m.buf2
    /\ region' = m.region
    /\ shm_readptr' = m.rp
    /\ shm_writeptr' = m.wp
    /\ inbox' = m.inbox
    /\ locked' = m.locked
    /\ arrivals' = m.arrivals
    /\ lastReq' = [code |-> m.req.code, offset |-> m.req.offset, length |-> m.req.length,
                   data |-> m.req.data, fresh |-> m.fresh]
    /\ lastResp' = [m.resp EXCEPT !.flushed =
                       m.flushed \/ (transport = "sock" /\ m.resp.kind # "none")]
    /\ ioLog' = m.ioLog
    /\ lret' = m.lret
    /\ faulted' = m.faulted
    /\ fail' = m.fail
    /\ wire' = m.wire
    /\ pc' = IF crash THEN "crashed"
             ELSE IF m.status = "loop" THEN "replied" ELSE m.status
    /\ UNCHANGED << dll_mode, vhd_mode, flags, file_size, image_offset, current_size,
                    block_size, block_shift, table_offset, footer, transport, prev, boot >>

\* behaviour is undefined after an out-of-bounds access or a double free
Crashes(m) == IF m.fatal THEN {TRUE} ELSE IF m.oob THEN BOOLEAN ELSE {FALSE}

\* the tail of do_comm_shm / do_comm_drv, or accept() on the socket
Ready(t) == [t EXCEPT !.status = IF @ = "loop" THEN "ready" ELSE @]

Connected(m) ==
    Ready(Flushed(IF transport = "shm" THEN shm_flush(m)
                  ELSE IF transport = "drv" THEN send_info(m)
                  ELSE m))

Connect ==
    /\ pc = "start"
    /\ \E p \in Procs : srv.at[p] = "wait" /\ srv' = [srv EXCEPT !.at[p] = "loop"]
    /\ \E r \in Deposits, c \in {"none", "flush"} :
          /\ (transport = "sock" => r = Request(IMDPROXY_REQ_INFO, 0, 0, << >>) /\ c = "none")
          /\ Outcome(Connected(Machine(Input(r, Env(NoFault, "ok", c)))), FALSE)

\* one request code is read and dispatched
\* the turn ends as m, or in a crash where its behaviour is undefined
Finish(m) == \E crash \in Crashes(m) : Outcome(m, crash)

Serve ==
    /\ pc = "loop"
    /\ UNCHANGED srv
    /\ \E inp \in Inputs : Finish(do_comm_turn(Machine(inp)))

\* the handler returns 1 and the loop goes round
NextTurn ==
    /\ pc \in {"replied", "ready"}
    /\ pc' = "loop"
    /\ lastReq' = NoReq @@ [fresh |-> FALSE]
    /\ lastResp' = NoResp
    /\ ioLog' = << >>
    /\ lret' = -2
    /\ faulted' = FALSE
    /\ fail' = "none"
    /\ wire' = Carried(wire)
    /\ prev' = IF lastReq.code = IMDPROXY_REQ_WRITE
               THEN [code |-> lastReq.code, offset |-> lastReq.offset, length |-> lastReq.length,
                     data |-> lastReq.data, clean |-> ~faulted, gone |-> wire.gone]
               ELSE [NoPrev EXCEPT !.code = lastReq.code, !.clean = ~faulted,
                                   !.gone = wire.gone]
    /\ UNCHANGED << file, dll_mode, vhd_mode, flags, file_size, image_offset, current_size,
                    block_size, block_shift, table_offset, footer, transport, buffer_size,
                    buf, buf2, region, shm_readptr, shm_writeptr, inbox, errno, arrivals,
                    locked, srv, boot >>

Next == Connect \/ Serve \/ NextTurn

\* ---- do_comm_shm: several servers started on one shared-memory name ----

protocol == << vhd_mode, file, image_offset, current_size, file_size, block_size,
               block_shift, table_offset, footer, flags, dll_mode, transport,
               buffer_size, buf, buf2, region, shm_readptr, shm_writeptr, inbox,
               errno, pc, arrivals, lastReq, lastResp, ioLog, lret, faulted, fail,
               prev, locked, wire, boot >>

\* a return of do_comm_shm before the loop: the process goes on to exit
Leave(s, p, code) == [s EXCEPT !.at[p] = "leaving", !.code[p] = code]

\* lines 1883 and 1934: the named object is in another process's hands
AlreadyRunningIgnored(holders, p) == FALSE
AlreadyRunning(holders, p) == holders \ {p} # {}

\* lines 1856-1860: the object names are built on the heap
Launch(p) ==
    /\ srv.at[p] = "idle"
    /\ \E ok \in BOOLEAN :
         srv' = IF ok THEN [srv EXCEPT !.at[p] = "map"]
                ELSE [srv EXCEPT !.at[p] = "exited", !.code[p] = -1]
    /\ UNCHANGED protocol

\* lines 1868-1921: CreateFileMapping on the name, the ERROR_ALREADY_EXISTS test,
\* then the view, its size and the secondary buffer
MapName(p) ==
    /\ srv.at[p] = "map"
    /\ \E fault \in {"none", "create", "view"} :
         srv' = IF fault = "create" THEN Leave(srv, p, 2)
                ELSE IF AlreadyRunning(srv.maph, p)
                THEN Leave([srv EXCEPT !.maph = @ \cup {p}], p, 2)
                ELSE IF fault = "view"
                THEN Leave([srv EXCEPT !.maph = @ \cup {p}], p, 2)
                ELSE [srv EXCEPT !.maph = @ \cup {p}, !.at[p] = "mutex"]
    /\ UNCHANGED protocol

\* lines 1923-1932: CreateMutex on name_Server
OpenMutex(p) ==
    /\ srv.at[p] = "mutex"
    /\ \E ok \in BOOLEAN :
         srv' = IF ok THEN [srv EXCEPT !.mutexh = @ \cup {p}, !.at[p] = "acquire"]
                ELSE Leave(srv, p, 2)
    /\ UNCHANGED protocol

\* lines 1934-1938: WaitForSingleObject(mutex, 0) must give WAIT_OBJECT_0; an
\* abandoned mutex is handed over but reported as WAIT_ABANDONED
AcquireMutex(p) ==
    /\ srv.at[p] = "acquire"
    /\ srv' = IF AlreadyRunning(IF srv.owner = 0 THEN {} ELSE {srv.owner}, p)
              THEN Leave(srv, p, 2)
              ELSE IF srv.abandoned
              THEN Leave([srv EXCEPT !.owner = p, !.abandoned = FALSE], p, 2)
              ELSE [srv EXCEPT !.owner = p, !.at[p] = "events"]
    /\ UNCHANGED protocol

\* lines 1940-1960: the Request and Response events
OpenEvents(p) ==
    /\ srv.at[p] = "events"
    /\ \E ok \in BOOLEAN :
         srv' = IF ok THEN [srv EXCEPT !.at[p] = "wait"] ELSE Leave(srv, p, 2)
    /\ UNCHANGED protocol

\* lines 1970-1974: the wait for the first Request fails
WaitFails(p) ==
    /\ srv.at[p] = "wait"
    /\ srv' = Leave(srv, p, 2)
    /\ UNCHANGED protocol

\* lines 1829-1833: do_comm has returned and main returns its result
EndSession(p) ==
    /\ srv.at[p] = "loop"
    /\ pc \in {"closed", "failed"}
    /\ srv' = Leave(srv, p, IF pc = "closed" THEN 0 ELSE 1)
    /\ UNCHANGED protocol

\* process exit: the kernel closes the handles, a held mutex is abandoned, and an
\* object without handles is gone
Exit(p) ==
    /\ srv.at[p] = "leaving" \/ (srv.at[p] = "loop" /\ pc = "crashed")
    /\ srv' = [srv EXCEPT !.at[p] = "exited",
                          !.maph = @ \ {p},
                          !.mutexh = @ \ {p},
                          !.owner = IF @ = p THEN 0 ELSE @,
                          !.abandoned = IF srv.mutexh \ {p} = {} THEN FALSE
                                        ELSE @ \/ srv.owner = p]
    /\ UNCHANGED protocol

InitPair ==
    /\ InitImage(FALSE, RawImage, 0)
    /\ InitComm("shm")
    /\ srv = NoServer
    /\ boot = HandedOff
    /\ dll_mode = FALSE
    /\ flags = 0

Startup ==
    \E p \in Procs :
        \/ Launch(p)
        \/ MapName(p)
        \/ OpenMutex(p)
        \/ AcquireMutex(p)
        \/ OpenEvents(p)
        \/ WaitFails(p)
        \/ EndSession(p)
        \/ Exit(p)

NextPair == Startup \/ Connect \/ Serve \/ NextTurn

SpecShmPair == InitPair /\ [][NextPair]_vars

\* ---- vhd_write on a block with as many sectors as its bitmap has bits ----

\* a bitmap of one sector describes 8 * sector_size sectors
BitmapBlockSize == 8 * sector_size * sector_size

\* a dynamic VHD of one block, allocated, with an empty bitmap and no data
BitmapImage ==
    LET batBytes == RoundUp(8, sector_size)
        start == TableOffset + batBytes
    IN  FooterBytes \o Zeros(HeaderSize)
          \o BE32Bytes(start \div sector_size) \o Fill(batBytes - 4, 255)
          \o Zeros(sector_size) \o Zeros(BitmapBlockSize) \o FooterBytes

InitBitmap ==
    /\ vhd_mode = TRUE
    /\ file = BitmapImage
    /\ image_offset = 0
    /\ current_size = BitmapBlockSize /\ file_size = BitmapBlockSize
    /\ block_size = BitmapBlockSize
    /\ block_shift = CHOOSE b \in 0..WordBits : Pow2(b) = BitmapBlockSize
    /\ table_offset = TableOffset
    /\ footer = FooterBytes
    /\ transport = "sock"
    /\ buffer_size = BitmapBlockSize
    /\ buf = Fill(BitmapBlockSize, 170)
    /\ buf2 = [st |-> "live", cap |-> BitmapBlockSize]
    /\ region = FreshRegion /\ shm_readptr = -1 /\ shm_writeptr = -1 /\ inbox = "fresh"
    /\ locked = FALSE /\ errno = 0 /\ pc = "loop" /\ arrivals = 0
    /\ lastReq = NoReq @@ [fresh |-> FALSE]
    /\ lastResp = NoResp
    /\ ioLog = << >> /\ lret = -2 /\ faulted = FALSE /\ fail = "none"
    /\ prev = NoPrev /\ wire = NoWire
    /\ srv = SoleServer /\ boot = HandedOff
    /\ dll_mode = FALSE /\ flags = 0

\* vhd_write(buf, size, offset) for one part of the block
WritePart ==
    /\ pc = "loop"
    /\ \E offset \in 0..(block_size - 1) : \E size \in 1..(block_size - offset) :
          LET r == vhd_write(Machine(Input(Request(IMDPROXY_REQ_WRITE, offset, size,
                                                   Fill(size, 170)),
                                           Env(NoFault, "ok", "none"))),
                             0, size, offset)
          IN  /\ file' = r.file
              /\ ioLog' = r.ioLog
              /\ lret' = r.ret
              /\ errno' = r.errno
              /\ lastReq' = [code |-> IMDPROXY_REQ_WRITE, offset |-> offset, length |-> size,
                             data |-> Fill(size, 170), fresh |-> TRUE]
    /\ pc' = "replied"
    /\ UNCHANGED << dll_mode, vhd_mode, flags, file_size, image_offset, current_size,
                    block_size, block_shift, table_offset, footer, transport, buffer_size,
                    buf, buf2, region, shm_readptr, shm_writeptr, inbox, arrivals,
                    lastResp, faulted, fail, prev, locked, wire, srv, boot >>

SpecBitmap == InitBitmap /\ [][WritePart]_vars

SpecVhd == InitVhd /\ [][Next]_vars
SpecRaw == InitRaw /\ [][Next]_vars
Spec == InitAll /\ [][Next]_vars


---------------------------------------------------------------------------
(* Properties *)

ReadOnlyDevice == flags = IMDPROXY_FLAG_RO
WriteDispatched == lastReq.code = IMDPROXY_REQ_WRITE
ReadDispatched == lastReq.code = IMDPROXY_REQ_READ

\* the turn got through without a transport failure and without a crash
Served == fail # "comm" /\ pc # "crashed"

\* C1 as stated: on a read-only device every write request, whatever its
\* length, is answered EBADF with length 0 and leaves the backing store as
\* it was.
C1_AnyLength ==
    [][(pc = "loop" /\ ReadOnlyDevice /\ WriteDispatched' /\ Served')
         => (lastResp'.words = << EBADF, 0 >> /\ file' = file)]_vars

\* C1: on a read-only device no write request changes the backing store,
\* and every write request whose length exceeds neither buffer_size nor the
\* memory behind buf, and that is received in full, is answered EBADF with
\* length 0.
C1_ReadOnlyWrite ==
    [][(pc = "loop" /\ ReadOnlyDevice /\ WriteDispatched')
         => /\ file' = file
            /\ (fail' = "none" /\ lastReq'.length <= buffer_size /\ lastReq'.length <= Len(buf))
                 => (lastResp'.kind = "rw" /\ lastResp'.words = << EBADF, 0 >>)]_vars

C1_Witness ==
    /\ pc = "replied" /\ ReadOnlyDevice /\ WriteDispatched
    /\ lastReq.length > 0 /\ ~AllZero(lastReq.data)
    /\ lastResp.words = << EBADF, 0 >>

\* the request dispatched last lies in range and within one block
InOneBlock(r) ==
    /\ ~OutOfRange(r.length, ToS(image_offset + r.offset))
    /\ FirstSize(r.length, ToS(image_offset + r.offset)) = r.length

\* the BAT entry of the block that holds byte offset of the image, as it is in f
BatEntry(f, r) == Slice(f, BatOffset(ToS(image_offset + r.offset)), 4)

\* C2: a write whose payload is all zero bytes into a sparse block of a
\* dynamic VHD allocates nothing: the file keeps its length, the BAT entry
\* stays 0xFFFFFFFF, and the response is errorno 0 with the requested length.
C2_ZeroWriteStaysSparse ==
    [][(/\ pc = "loop" /\ vhd_mode /\ ~ReadOnlyDevice
        /\ WriteDispatched' /\ fail' = "none" /\ pc' = "replied" /\ ~faulted'
        /\ lastReq'.length > 0 /\ AllZero(lastReq'.data)
        /\ InOneBlock(lastReq') /\ BatEntry(file, lastReq') = SPARSE)
         => (/\ Len(file') = Len(file)
             /\ BatEntry(file', lastReq') = SPARSE
             /\ lastResp'.words = << 0, lastReq'.length >>)]_vars

\* the server is between two requests
BetweenRequests == pc \in {"ready", "loop", "replied"}

\* the last sizeof(vhd_info.Footer) bytes of the file
LastSector(f) == Slice(f, Len(f) - FooterSize, FooterSize)

\* C3: in dynamic VHD mode, whatever write requests have been served, the
\* last 512 bytes of the file are the footer that was there at startup in
\* every state between two requests.
C3_FooterPreserved ==
    (vhd_mode /\ BetweenRequests) => LastSector(file) = FooterBytes

\* request r addresses bytes of the virtual disk only
InRange(r) == r.offset + r.length <= file_size

\* the request dispatched last reads back what the request before it wrote
ReadsBack ==
    /\ ReadDispatched /\ prev.code = IMDPROXY_REQ_WRITE
    /\ prev.offset = lastReq.offset /\ prev.length = lastReq.length

\* C4: in dynamic VHD mode on a writable device, a write of D followed by
\* a read of the same offset and length (in range, length <= buffer_size)
\* returns errorno 0, that length and payload D, as long as the backing
\* store does what it is asked.
C4_RoundTrip ==
    (/\ vhd_mode /\ ~ReadOnlyDevice /\ ReadsBack /\ InRange(lastReq)
     /\ lastReq.length <= buffer_size
     /\ prev.clean /\ ~faulted /\ Served)
      => (lastResp.words = << 0, lastReq.length >> /\ lastResp.payload = prev.data)

\* what the one pread of a raw-image read returned
Delivered == ioLog[1].ret

\* C5: on a read-only raw image the payload of a read response is what a
\* direct pread at image_offset + offset returns, and the response never
\* reports more bytes than that pread delivers.
C5_ReadMatchesPread ==
    (/\ ~vhd_mode /\ ReadOnlyDevice /\ ReadDispatched /\ fail = "none" /\ pc = "replied"
     /\ Len(ioLog) = 1 /\ Delivered >= 0 /\ lastResp.words[1] = 0)
      => (/\ lastResp.words[2] <= Delivered
          /\ lastResp.payload = Slice(file, ToS(image_offset + lastReq.offset), Delivered))

\* the number of bytes the handler asked the logical layer for
Requested ==
    IF ReadDispatched /\ lastReq.length > buffer_size THEN buffer_size ELSE lastReq.length

\* C6: a read or write for which the logical layer transfers n bytes, fewer
\* than asked and without an error, is answered errorno 0 and length n.
C6_ShortTransfer ==
    (/\ ReadDispatched \/ WriteDispatched
     /\ fail = "none" /\ pc = "replied"
     /\ lret >= 0 /\ lret < Requested)
      => lastResp.words = << 0, lret >>

\* C7: buffer_size never decreases, whatever the transport, the requests
\* (reads of any length, writes that make the driver ask for a larger
\* buffer) and the allocations that fail: after every request the process
\* lives through, served or ending the session, buffer_size is at least
\* what it was before the request.
C7_BufferNeverShrinks == [][pc' # "crashed" => buffer_size' >= buffer_size]_vars

\* a small request served after the buffer has grown
C7_Witness ==
    /\ pc = "replied" /\ buffer_size > InitBuffer
    /\ ReadDispatched /\ lastReq.length \in 1..InitBuffer
    /\ lastResp.words = << 0, lastReq.length >>

UnknownCode(r) ==
    r.code >= 0 /\ r.code \notin {IMDPROXY_REQ_INFO, IMDPROXY_REQ_READ, IMDPROXY_REQ_WRITE}

\* C8: requests are served strictly in order: when the server goes back to
\* read the next request code, the response to the request before it has
\* been emitted in full, its transport flush included.
C8_ResponseBeforeNextRequest ==
    pc = "replied" => (lastResp.kind # "none" /\ lastResp.flushed)

\* C9: a request code other than INFO, READ and WRITE is answered with the
\* one word ENODEV and causes no backing-store I/O, the session goes on, and
\* the request code dispatched next is one the client has freshly supplied.
C9_UnknownCode ==
    /\ (UnknownCode(lastReq) /\ Served)
         => (/\ lastResp.words = << ENODEV >> /\ ioLog = << >>
             /\ pc \in {"replied", "blocked"})
    /\ (UnknownCode(prev) /\ lastReq.code >= 0) => lastReq.fresh

\* C10: when the logical read or write of a request fails, the response is
\* still sent in full and carries the error (errno as the backing store set
\* it, which is never 0 for a host file), and the server goes on to the
\* next request.
C10_FailureIsReported ==
    (/\ ReadDispatched \/ WriteDispatched
     /\ lret = -1 /\ Served)
      => (/\ lastResp.kind = "rw" /\ lastResp.flushed
          /\ lastResp.words[1] = ToU(errno)
          /\ ~dll_mode => lastResp.words[1] # 0
          /\ lastResp.words[2] = IF ReadDispatched THEN 0 ELSE ToU(-1)
          /\ pc \in {"replied", "blocked"})

\* a WRITE whose backing-store operation failed, answered, with the loop
\* ready for the next request
C10_Witness ==
    /\ pc = "replied" /\ WriteDispatched /\ lret = -1 /\ faulted
    /\ lastResp.flushed /\ lastResp.words = << ToU(errno), ToU(-1) >> /\ errno # 0

\* C11: a WRITE request whose length exceeds buffer_size ends the session
\* with a failure (write_data returns 0, no response is written), leaves the
\* backing store byte for byte as it was and does not change buffer_size.
C11_OversizedWrite ==
    [][(pc = "loop" /\ WriteDispatched' /\ lastReq'.length > buffer_size)
         => /\ pc' = "failed"
            /\ file' = file
            /\ buffer_size' = buffer_size
            /\ ioLog' = << >>
            /\ lastResp'.kind = "none"]_vars

\* an oversized WRITE with a non-zero payload on a writable image has ended
\* the session
C11_Witness ==
    /\ pc = "failed" /\ WriteDispatched /\ lastReq.length > buffer_size
    /\ ~ReadOnlyDevice /\ fail = "toobig" /\ transport = "sock"

\* C12: a READ request whose length exceeds buffer_size first has the buffer
\* grown (buffer_size becomes at least the clamped length, except on the
\* shared-memory transport where it cannot change) and is then answered
\* with min(length, buffer_size) bytes; on the socket, when the allocation
\* succeeded, that is the full requested length; a READ that fits is
\* answered in full, and buffer_size is never reduced by a READ.
C12_ReadGrowsThenClips ==
    [][(pc = "loop" /\ ReadDispatched' /\ Served' /\ lret' >= 0)
         => /\ lastResp'.kind = "rw" /\ lastResp'.words[1] = 0
            /\ buffer_size' >= buffer_size
            /\ lastResp'.words[2] =
                  IF lastReq'.length <= buffer_size THEN lastReq'.length
                  ELSE IF transport = "shm" THEN buffer_size
                  ELSE ClampSize(lastReq'.length)
            /\ (transport # "shm" /\ lastReq'.length > buffer_size)
                  => buffer_size' >= ClampSize(lastReq'.length)
            /\ (transport = "sock" /\ Len(buf') >= lastReq'.length)
                  => /\ lastResp'.words[2] = lastReq'.length
                     /\ Len(lastResp'.payload) = lastReq'.length]_vars

\* a READ longer than the initial buffer answered in full on the socket
C12_Witness ==
    /\ transport = "sock" /\ pc = "replied" /\ ReadDispatched
    /\ lastReq.length > InitBuffer /\ buffer_size = lastReq.length
    /\ Len(buf) = lastReq.length
    /\ lastResp.words = << 0, lastReq.length >>
    /\ Len(lastResp.payload) = lastReq.length

\* bytes of a request header after the code, of a response, of a request code
HeaderBytes == 2 * QWordSize
CodeBytes == QWordSize

\* C13: on the socket the stream stays aligned on request boundaries.  For a
\* READ the server takes the code and the 16-byte header and puts a 16-byte
\* header followed by exactly `length` payload bytes when errorno = 0 and by
\* nothing when errorno # 0.  For a WRITE with length <= buffer_size it takes
\* the code, the 16-byte header and exactly `length` payload bytes, also on
\* a read-only device, and puts exactly a 16-byte response.
C13_StreamAligned ==
    (transport = "sock" /\ Served /\ pc = "replied")
      => /\ ReadDispatched
              => /\ lastResp.kind = "rw"
                 /\ wire.rd = CodeBytes + HeaderBytes
                 /\ wire.wr = HeaderBytes + (IF lastResp.words[1] = 0 THEN lastResp.words[2] ELSE 0)
                 /\ (lastResp.words[1] = 0 /\ Len(buf) >= lastResp.words[2])
                       => Len(lastResp.payload) = lastResp.words[2]
                 /\ lastResp.words[1] # 0 => lastResp.payload = << >>
         /\ (WriteDispatched /\ lastReq.length <= buffer_size)
              => /\ lastResp.kind = "rw"
                 /\ wire.rd = CodeBytes + HeaderBytes + lastReq.length
                 /\ wire.wr = HeaderBytes

\* a WRITE with a payload answered on a read-only device, and the stream
\* positions after it
C13_Witness ==
    /\ transport = "sock" /\ pc = "replied" /\ ReadOnlyDevice /\ WriteDispatched
    /\ lastReq.length > 0
    /\ wire.rd = CodeBytes + HeaderBytes + lastReq.length /\ wire.wr = HeaderBytes

\* the blocks a request of n bytes at byte o of the disk addresses
BlocksOf(o, n) == (o \div block_size)..(Max(o, o + n - 1) \div block_size)

\* the request dispatched last lies within the disk and every block it
\* addresses has the BAT entry 0xFFFFFFFF
OnlySparseBlocks ==
    /\ lastReq.offset + Requested <= current_size
    /\ \A b \in BlocksOf(lastReq.offset, Requested) :
          Slice(file, table_offset + 4 * b, 4) = << 255, 255, 255, 255 >>

\* an entry of ioLog that is the read of one BAT entry
IsBatRead(e) ==
    /\ e.op = "r" /\ e.size = 4
    /\ \E b \in 0..NumBlocks : e.off = table_offset + 4 * b

\* C14: in VHD mode a READ that covers only blocks whose BAT entry is
\* 0xFFFFFFFF is answered errorno 0, the length asked for and a payload of
\* zero bytes, and the only physical operations are reads of BAT entries
\* (as long as the backing store does what it is asked).
C14_SparseRead ==
    (/\ vhd_mode /\ ReadDispatched /\ Served /\ lastResp.kind = "rw"
     /\ ~faulted /\ OnlySparseBlocks)
      => /\ lret = Requested
         /\ lastResp.words = << 0, Requested >>
         /\ lastReq.length <= buffer_size => lastResp.words[2] = lastReq.length
         /\ Len(buf) >= Requested => lastResp.payload = Zeros(Requested)
         /\ \A i \in 1..Len(ioLog) : IsBatRead(ioLog[i])

\* a READ across two sparse blocks
C14_Witness ==
    /\ vhd_mode /\ ReadDispatched /\ pc = "replied" /\ ~faulted /\ OnlySparseBlocks
    /\ lastReq.length > block_size /\ Len(ioLog) = 2
    /\ lastResp.words = << 0, lastReq.length >> /\ AllZero(lastResp.payload)

\* C15 as stated: whenever the read of a request header (the request code,
\* or the offset and length of a READ or WRITE) returns short, the session
\* ends as "Connection closed" with exit code 0.
C15_AnyHeader == wire.short \in {"code", "hdr"} => pc = "closed"

\* C15: when the read of the request code returns short, do_comm says
\* "Connection closed" and returns 0; when the read of the offset and length
\* of a READ or WRITE returns short, the handler returns 0 and do_comm
\* returns 1, with nothing answered and nothing done on the backing store.
C15_ShortHeader ==
    /\ wire.short = "code" => pc = "closed"
    /\ wire.short = "hdr"
         => /\ pc = "failed" /\ (ReadDispatched \/ WriteDispatched)
            /\ lastResp.kind = "none" /\ ioLog = << >>

\* the offset and length of a WRITE did not arrive on the socket
C15_Witness ==
    /\ transport = "sock" /\ wire.short = "hdr" /\ WriteDispatched /\ pc = "failed"

\* ---- C16 ----
InService(p) == srv.at[p] \in {"wait", "loop"}

\* C16: of the server processes started on one shared-memory name, at most one is
\* ever past startup (waiting for the first Request or in the request loop), and
\* a process that is still at startup while another is past it can only be before
\* its CreateFileMapping call or on its way out with exit code 2
C16_OneServerPerName ==
    \A p \in Procs : \A q \in Procs \ {p} :
        InService(p) =>
            /\ ~InService(q)
            /\ srv.at[q] = "leaving" => srv.code[q] = 2

\* one server is in the request loop and has answered a request; the other
\* found the name taken and has exited with code 2
C16_Witness ==
    \E p \in Procs : \E q \in Procs \ {p} :
        /\ srv.at[p] = "loop" /\ pc = "replied"
        /\ srv.at[q] = "exited" /\ srv.code[q] = 2
        /\ srv.maph = {p} /\ srv.owner = p

\* ---- C17 ----
\* C17: on the shared-memory transport every Request signal the server has
\* consumed is answered by a Response signal before the session ends: when
\* do_comm has returned, the request taken last has had its Response,
\* whatever its kind (INFO, READ, WRITE, unknown code, oversized WRITE).
C17_EveryRequestAnswered ==
    (transport = "shm" /\ pc \in {"closed", "failed"}) => lastResp.flushed

\* ---- C18 ----
\* C18: on the driver transport, once the Exchange I/O has failed with
\* DEV_NOT_EXIST the next thing do_comm does is return 0: no further request
\* is dispatched and the backing store is neither read nor written.
C18_DeviceGone ==
    (transport = "drv" /\ prev.gone /\ pc # "loop")
      => (pc = "closed" /\ lastReq.code = -1 /\ ioLog = << >>)

\* ---- C19 ----
\* C19: at hand-off to do_comm, whatever the command line (partition number,
\* explicit size, explicit offset), image_offset + file_size <= current_size
\* whenever current_size # 0.
C19_WithinDevice ==
    (boot.stage = "handoff" /\ current_size # 0)
      => image_offset + file_size <= current_size

\* argv[3] was a size, not a partition number
ExplicitSize ==
    boot.size.given /\ ~(boot.size.suf = "" /\ boot.size.n < PartitionLimit)

\* C19 as the code has it: at hand-off image_offset + file_size <= current_size
\* whenever current_size # 0, for a partition selected from the MBR/EBR chain,
\* for the whole image and for an explicit size on a raw image, as long as no
\* offset argument has been applied; an offset argument that is applied and an
\* explicit size on a VHD image are handed off as given.
C19_CheckedConfigurations ==
    (/\ boot.stage = "handoff" /\ current_size # 0
     /\ ~boot.applied
     /\ ~(vhd_mode /\ ExplicitSize))
      => image_offset + file_size <= current_size

\* the second primary partition of an image, selected by its number and
\* handed off with an offset argument that was not applied
C19_Witness ==
    /\ boot.stage = "handoff" /\ boot.hit.kind = "primary" /\ boot.partition_number = 2
    /\ boot.offset.given /\ ~boot.applied
    /\ image_offset > 0 /\ file_size > 0 /\ image_offset + file_size = current_size

\* ---- C20 ----
\* entry i of the MBR is a primary partition and, counting the entries in
\* use, partition number n (no extended partition comes before it)
IsPrimaryNumber(t, i, n) ==
    /\ t.e[i].type # 0 /\ ~IsExtended(t.e[i].type)
    /\ \A j \in 1..i : ~IsExtended(t.e[j].type)
    /\ Cardinality({ j \in 1..i : t.e[j].type # 0 }) = n

\* main has got past the partition walk and no offset argument has replaced
\* image_offset
PartitionHandedOff == boot.stage \in {"walked", "handoff"} /\ ~boot.applied

\* C20: when the image starts with a valid MBR and partition number N in
\* 1..511 designates an existing primary partition, main leaves the walk with
\* image_offset = LBA start x sector size and file_size = LBA count x sector
\* size of that entry (both fields little-endian), so a READ at offset 0 lies
\* at image_offset in the image.
C20_PrimaryPartition ==
    /\ GetLittleEndian32U(<< 0, 8, 0, 0 >>) = 2048
    /\ GetLittleEndian32U(<< 0, 32, 3, 0 >>) = 204800
    /\ (PartitionHandedOff /\ Readable(boot.disk, 0) /\ ValidTable(TableAt(boot.disk, 0)))
         => /\ \A i \in 1..4 :
                 IsPrimaryNumber(TableAt(boot.disk, 0), i, boot.partition_number)
                   => /\ image_offset =
                            GetLittleEndian32U(TableAt(boot.disk, 0).e[i].start) * sector_size
                      /\ file_size =
                            GetLittleEndian32U(TableAt(boot.disk, 0).e[i].count) * sector_size
                      /\ DevicePosition(0) = image_offset
            /\ boot.hit.kind = "primary"
                 => /\ image_offset = boot.hit.start * sector_size
                    /\ file_size = boot.hit.count * sector_size

\* the second primary partition of a VHD image, selected by its number
C20_Witness ==
    /\ boot.stage = "handoff" /\ vhd_mode /\ ~boot.offset.given
    /\ boot.partition_number = 2
    /\ Readable(boot.disk, 0) /\ ValidTable(TableAt(boot.disk, 0))
    /\ IsPrimaryNumber(TableAt(boot.disk, 0), 3, 2)
    /\ image_offset = 4 * sector_size /\ file_size = (DiskSectors - 4) * sector_size

\* ---- C21 ----
\* C21: while requests are served the region at buf holds at least
\* buffer_size bytes, whatever requests, buffer growths and failed
\* allocations have gone before.
C21_BufferHoldsBufferSize ==
    pc \in {"loop", "replied", "ready", "blocked"} => Len(buf) >= buffer_size

\* ---- C22 ----
\* block b has a place in the image f, and where it starts (its bitmap sector)
Allocated(f, b) == Slice(f, table_offset + 4 * b, 4) # SPARSE
BlockStart(f, b) == BE32(Slice(f, table_offset + 4 * b, 4)) * sector_size

\* the physical operations that are not data operations: a BAT entry read
\* or written, the new block with the footer, a write into a bitmap sector
IsBatOp(e) == e.size = 4 /\ \E b \in 0..NumBlocks : e.off = table_offset + 4 * b
IsNewBlockOp(e) == e.op = "w" /\ e.size = sector_size + block_size + FooterSize
IsBitmapOp(e) ==
    /\ e.op = "w"
    /\ \E b \in 0..(NumBlocks - 1) :
          /\ Allocated(file, b)
          /\ e.off >= BlockStart(file, b) /\ e.off < BlockStart(file, b) + sector_size
IsDataOp(e) == ~IsBatOp(e) /\ ~IsNewBlockOp(e) /\ ~IsBitmapOp(e)

\* the operation lies in the data area of one block
InDataArea(e) ==
    \E b \in 0..(NumBlocks - 1) :
        /\ Allocated(file, b)
        /\ e.off >= BlockStart(file, b) + sector_size
        /\ e.off + e.size <= BlockStart(file, b) + sector_size + block_size

\* the parts of the n bytes at o, one for each block they touch
PartOf(o, n, b) ==
    [b |-> b, off |-> Max(o, b * block_size),
     size |-> Min(o + n, (b + 1) * block_size) - Max(o, b * block_size)]
Parts(o, n) ==
    [k \in 1..(Max(o, o + n - 1) \div block_size - o \div block_size + 1) |->
        PartOf(o, n, o \div block_size + k - 1)]

\* where a part lies in the image
PartPosition(p) == BlockStart(file, p.b) + sector_size + (p.off % block_size)

\* a READ or WRITE of a VHD image that lies within the disk and met no
\* failure of the backing store
VhdTransfer ==
    /\ vhd_mode /\ (ReadDispatched \/ WriteDispatched)
    /\ Served /\ lastResp.kind = "rw" /\ ~faulted /\ lret >= 0
    /\ WriteDispatched => ~ReadOnlyDevice
    /\ lastReq.offset + image_offset >= 0
    /\ lastReq.offset + image_offset + Requested <= current_size

IsPartOnDisk(p) == Allocated(file, p.b)

\* the blocks of the image f lie one beside the other between the BAT and
\* the footer
WellFormed(f) ==
    /\ \A b \in 0..(NumBlocks - 1) :
          Allocated(f, b)
            => /\ BlockStart(f, b) >= table_offset + 4 * NumBlocks
               /\ BlockStart(f, b) + sector_size + block_size <= Len(f) - FooterSize
    /\ \A b \in 0..(NumBlocks - 1) : \A c \in 0..(NumBlocks - 1) :
          (b # c /\ Allocated(f, b) /\ Allocated(f, c))
            => \/ BlockStart(f, b) + sector_size + block_size <= BlockStart(f, c)
               \/ BlockStart(f, c) + sector_size + block_size <= BlockStart(f, b)

\* C22: every physical data operation of vhd_read and vhd_write lies within
\* the data area of one block, and the data operations are, in order, those
\* of the parts into which the request falls at the block boundaries (each
\* part read twice by vhd_read, written once by vhd_write; nothing for a
\* part in a block that has no place in the image), for an image whose
\* blocks lie one beside the other and a request within the disk that
\* meets no failure of the backing store.
C22_BlockClipped ==
    (VhdTransfer /\ WellFormed(file)) =>
        LET ops == SelectSeq(ioLog, IsDataOp)
            parts == SelectSeq(Parts(lastReq.offset + image_offset, Requested), IsPartOnDisk)
            times == IF ReadDispatched THEN 2 ELSE 1
        IN  /\ \A i \in 1..Len(ops) : InDataArea(ops[i])
            /\ Len(ops) = times * Len(parts)
            /\ \A i \in 1..Len(ops) :
                  /\ ops[i].op = (IF ReadDispatched THEN "r" ELSE "w")
                  /\ ops[i].off = PartPosition(parts[(i + times - 1) \div times])
                  /\ ops[i].size = parts[(i + times - 1) \div times].size

\* a WRITE across the boundary of two blocks, done as one data write in each
C22_Witness ==
    /\ VhdTransfer /\ WellFormed(file) /\ WriteDispatched /\ pc = "replied"
    /\ Len(Parts(lastReq.offset + image_offset, Requested)) = 2
    /\ Len(SelectSeq(ioLog, IsDataOp)) = 2
    /\ lret = lastReq.length

\* ---- C23 ----
\* a WRITE of non-zero data, done in full, that lies in one block of the
\* disk; f is the image before it
WriteIntoSparseBlock(f) ==
    /\ vhd_mode /\ WriteDispatched' /\ Served' /\ ~faulted'
    /\ lastReq'.length > 0 /\ ~AllZero(lastReq'.data)
    /\ lret' = lastReq'.length
    /\ lastReq'.offset + image_offset >= 0
    /\ InOneBlock(lastReq')
    /\ BatEntry(f, lastReq') = SPARSE
    \* the image ends on a sector boundary, as every image does that no
    \* failed allocation has cut short
    /\ (Len(f) - FooterSize) % sector_size = 0

\* C23: when a WRITE of non-zero data goes to a sparse block of an image
\* that ends on a sector boundary and every backing-store operation
\* succeeds, the BAT entry of the block becomes the
\* sector of the place the footer had before the request (end of file minus
\* the footer), big-endian; the file grows by exactly one sector plus
\* block_size; the footer is at the new end of the file; and the data lies
\* at (sector << sector_shift) + sector_size + in_block_offset.
C23_NewBlockAtFooter ==
    [][(pc = "loop" /\ WriteIntoSparseBlock(file))
         => /\ BatEntry(file', lastReq') =
                  BE32Bytes((Len(file) - FooterSize) \div sector_size)
            /\ Len(file') = Len(file) + sector_size + block_size
            /\ Slice(file', Len(file') - FooterSize, FooterSize) = footer
            /\ Slice(file', BE32(BatEntry(file', lastReq')) * sector_size + sector_size
                              + InBlockOffset(ToS(image_offset + lastReq'.offset)),
                     lastReq'.length) = lastReq'.data
            /\ \A i \in 1..(Len(file) - FooterSize) :
                  (i - 1 < BatOffset(ToS(image_offset + lastReq'.offset))
                   \/ i - 1 >= BatOffset(ToS(image_offset + lastReq'.offset)) + 4)
                    => file'[i] = file[i]]_vars

\* a WRITE of non-zero data has put a new block where the footer was: the
\* BAT entry read as sparse, then the BAT update, the block with the footer,
\* the data and the bitmap
C23_Witness ==
    /\ vhd_mode /\ pc = "replied" /\ WriteDispatched /\ ~faulted
    /\ lret = lastReq.length /\ lastReq.length > 0 /\ ~AllZero(lastReq.data)
    /\ Len(ioLog) = 5 /\ IsNewBlockOp(ioLog[3]) /\ ioLog[2].op = "w" /\ IsBatOp(ioLog[2])
    /\ ioLog[3].off = BE32(BatEntry(file, lastReq)) * sector_size
    /\ Slice(file, Len(file) - FooterSize, FooterSize) = footer

\* ---- C24 ----
\* a backing-store write that transferred fewer bytes than it was given
IsShortWrite(e) == e.op = "w" /\ e.ret >= 0 /\ e.ret < e.size

\* C24: within vhd_write, when any backing-store write (BAT update, new
\* block with footer, data, bitmap) transfers fewer bytes than requested,
\* vhd_write returns -1.
C24_ShortWriteFails ==
    (/\ vhd_mode /\ WriteDispatched /\ Served
     /\ \E i \in 1..Len(ioLog) : IsShortWrite(ioLog[i]))
      => lret = -1

\* ---- C25 ----
\* C25: every READ or WRITE of a VHD image that fails is answered with an
\* errorno other than 0 (the error of the backing store, or E2BIG when the
\* backing store reports none), whichever operation failed: BAT, new block,
\* bitmap or data.
C25_FailureHasErrorno ==
    (/\ vhd_mode /\ (ReadDispatched \/ WriteDispatched)
     /\ Served /\ lret = -1 /\ lastResp.kind = "rw")
      => lastResp.words[1] # 0

\* C26: on the shared-memory transport every access of the server to the
\* shared region (request and response words in the header, data in the
\* buffer) falls between a wake-up by the Request event and the following
\* Response signal: no turn of the loop touches the region after Response
\* has been signalled and before Request has ended the wait.
C26_RegionOnlyWhileHeld ==
    transport = "shm" =>
        /\ ~wire.stray
        /\ pc \in {"loop", "replied", "ready"} => wire.held
        /\ pc = "blocked" => ~wire.held

\* a READ was answered from the region, Response signalled and the server
\* woken again by the Request of the next request
C26_Witness ==
    /\ transport = "shm" /\ ReadDispatched /\ pc = "replied"
    /\ lastResp.flushed /\ lastResp.kind = "rw" /\ lastResp.words[2] > 0
    /\ wire.held /\ inbox = "fresh" /\ arrivals >= 2

\* C27: on the driver transport every Exchange I/O is issued while a
\* Lock-memory request, issued since the mapped region became the current
\* one, is outstanding for that region: at startup, after the growth in
\* drv_flush, and after buf_realloc whether its allocation succeeds or falls
\* back to the previous region.
C27_ExchangeUnderLock == transport = "drv" => ~wire.bare

\* a READ longer than the buffer was dispatched and answered in the step
OversizedReadAnswered ==
    /\ pc = "loop" /\ lastReq'.code = IMDPROXY_REQ_READ /\ lastReq'.length > buffer_size
    /\ fail' # "comm" /\ pc' # "crashed" /\ lastResp'.kind = "rw"

\* C28 as stated: on the shared-memory transport no step changes buffer_size
\* or the buffer (its place and capacity, and the secondary buffer), and
\* every READ with length > buffer_size is answered errorno 0 and
\* length = buffer_size.
C28_ShmBufferFixed ==
    [][transport = "shm"
         => /\ buffer_size' = buffer_size /\ Len(buf') = Len(buf) /\ buf2' = buf2
            /\ OversizedReadAnswered => lastResp'.words = << 0, buffer_size >>]_vars

\* C28, amended: on the shared-memory transport no step changes buffer_size
\* or the buffer, and every READ with length > buffer_size whose device read
\* does not fail is answered errorno 0 and length = buffer_size; when the
\* device read fails the answer carries errno and length 0.
C28_ShmBufferFixedUnlessReadFails ==
    [][transport = "shm"
         => /\ buffer_size' = buffer_size /\ Len(buf') = Len(buf) /\ buf2' = buf2
            /\ OversizedReadAnswered
                  => lastResp'.words = IF lret' # -1 THEN << 0, buffer_size >>
                                       ELSE << errno', 0 >>]_vars

\* a READ longer than the shared buffer answered with buffer_size bytes
C28_Witness ==
    /\ transport = "shm" /\ pc = "replied" /\ ReadDispatched /\ Served
    /\ lastReq.length > buffer_size /\ lret # -1
    /\ lastResp.words = << 0, buffer_size >> /\ lastResp.flushed
    /\ Len(buf) = buffer_size

\* C29: GetBigEndian64 returns, for every array of bytes, the integer whose
\* big-endian representation is those bytes, so that current_size and
\* table_offset are the big-endian values of Footer.CurrentSize and
\* Header.TableOffset.
C29_BigEndianDecoded ==
    boot.stage = "shifts"
      => /\ current_size = Signed(BigEndianValue(boot.CurrentSize, Int64Octets))
         /\ table_offset = Signed(BigEndianValue(boot.TableOffset, Int64Octets))

\* an access of the size of a BAT entry below the data blocks, and whether it
\* lies within the entries of the table
IsTableAccess(e) == e.size = 4 /\ e.off < DataStart
InTable(e) == e.off >= table_offset /\ e.off + 4 <= table_offset + 4 * NumBlocks

\* C30: for every request offset and length, also those for which
\* image_offset + offset is negative as a signed 64-bit value, vhd_read and
\* vhd_write return 0 and issue no physical operation unless 0 <= offset and
\* offset + size <= current_size, and no BAT entry outside the table is read
\* or written.
C30_InRangeOrNothing ==
    (vhd_mode /\ (ReadDispatched \/ WriteDispatched) /\ lret # -2)
      => LET offset == DevicePosition(lastReq.offset)
         IN  /\ ~(0 <= offset /\ offset + Requested <= current_size)
                   => (lret = 0 /\ ioLog = << >>)
             /\ \A i \in 1..Len(ioLog) : IsTableAccess(ioLog[i]) => InTable(ioLog[i])

\* the walk has just ended at an entry of an EBR
LogicalPartitionFound == boot.stage \in {"walked", "exited"} /\ boot.hit.kind = "logical"

\* every EBR after the first of the chain walked last lies at the first
\* EBR's offset plus the start value of the link entry that led to it
LinksFromFirst ==
    /\ Len(boot.ebrs) = Len(boot.links) + 1 \/ (boot.ebrs = << >> /\ boot.links = << >>)
    /\ \A k \in 1..Len(boot.links) :
          boot.ebrs[k + 1] = boot.ebrs[1] + boot.links[k] * sector_size

\* C31 as stated: while an extended partition chain is walked, the start
\* value of a link entry and the start value of a logical partition are
\* both counted from the offset of the first EBR.
C31_AllFromFirstEbr ==
    boot.stage \in {"walked", "exited"}
      => /\ LinksFromFirst
         /\ boot.hit.kind = "logical"
               => image_offset = boot.hit.first + boot.hit.start * sector_size

\* C31, amended: the start value of a link entry is counted from the offset
\* of the first EBR, the start value of a logical partition from the offset
\* of the EBR that holds its entry.
C31_LinkFromFirstPartitionFromOwn ==
    boot.stage \in {"walked", "exited"}
      => /\ LinksFromFirst
         /\ boot.hit.kind = "logical"
               => /\ image_offset = boot.hit.ebr + boot.hit.start * sector_size
                  /\ boot.hit.ebr = boot.ebrs[Len(boot.ebrs)]
                  /\ boot.hit.first = boot.ebrs[1]

\* a logical partition found in the second EBR of a chain
C31_Witness ==
    /\ LogicalPartitionFound /\ boot.stage = "walked"
    /\ Len(boot.ebrs) = 2 /\ boot.links # << >> /\ boot.hit.ebr # boot.hit.first
    /\ boot.hit.start > 0

\* the turn that serves inp, as a plugin (dll) or a host file would have it
TurnAs(inp, dll) == do_comm_turn([Machine(inp) EXCEPT !.dll = dll])

\* C32: in VHD mode a request that meets no backing-store failure gets the
\* same response and leaves the same image contents whether the image is
\* reached through a plugin or is a host file, also when the request is a
\* WRITE that allocates a sparse block.
C32_SameForPluginAndHostFile ==
    (vhd_mode /\ pc = "loop")
      => \A inp \in Inputs :
            LET plugin == TurnAs(inp, TRUE)
                hostfile == TurnAs(inp, FALSE)
            IN  (/\ inp.fault = NoFault
                 /\ \A i \in 1..Len(hostfile.ioLog) : hostfile.ioLog[i].ret # -1)
                  => /\ plugin.resp = hostfile.resp
                     /\ plugin.file = hostfile.file

\* two operations of one request that ask the backing store for the same
SameOperation(a, b) == a.op = b.op /\ a.off = b.off /\ a.size = b.size

\* C33: while one request is served no physical operation is issued twice:
\* a non-sparse block part is read with one data read, and an operation
\* that failed is not issued again.
C33_IssuedOnce ==
    \A i, j \in 1..Len(ioLog) : i < j => ~SameOperation(ioLog[i], ioLog[j])

\* the bitmap sector and the data of block b of the image f
BlockEnd(f, b) == BlockStart(f, b) + sector_size + block_size

\* C34: in VHD mode, in every state between two requests, also after a
\* request that failed in the middle of an allocation, every BAT entry other
\* than FFFFFFFF names a block whose bitmap sector and data lie before the
\* footer, and the blocks of two entries do not overlap.
C34_BlocksBeforeFooterAndDisjoint ==
    (vhd_mode /\ pc \in {"loop", "replied"})
      => /\ \A b \in 0..(NumBlocks - 1) :
               Allocated(file, b) => BlockEnd(file, b) <= Len(file) - FooterSize
         /\ \A b, c \in 0..(NumBlocks - 1) :
               (b # c /\ Allocated(file, b) /\ Allocated(file, c))
                 => (BlockEnd(file, b) <= BlockStart(file, c)
                     \/ BlockEnd(file, c) <= BlockStart(file, b))

\* bit k of the allocation bitmap of block 0 (most significant bit first)
BitmapBit(f, k) ==
    (f[BlockStart(f, 0) + (k \div 8) + 1] \div Pow2(7 - (k % 8))) % 2

\* C35: after a vhd_write part that succeeded, the bitmap bit of every
\* sector that the bytes written touch is set, wherever the part starts and
\* however long it is.
C35_TouchedSectorsMarked ==
    (pc = "replied" /\ WriteDispatched /\ lret = lastReq.length /\ lret > 0)
      => \A k \in (lastReq.offset \div sector_size)
                    ..((lastReq.offset + lastReq.length - 1) \div sector_size) :
            BitmapBit(file, k) = 1

\* the bytes of the backing store that the operation e read or wrote
Touched(e) == IF e.ret > 0 THEN (e.off + 1)..(e.off + e.ret) ELSE {}

\* C36: on a raw image no READ or WRITE reads or writes a byte of the
\* backing store outside the exported extent, the file_size bytes from
\* image_offset on: a request that reaches past file_size is not served from
\* and does not change bytes behind the partition.
C36_WithinExportedExtent ==
    (~vhd_mode /\ (ReadDispatched \/ WriteDispatched))
      => \A i \in 1..Len(ioLog) :
            Touched(ioLog[i]) \subseteq (image_offset + 1)..(image_offset + file_size)

\* C37: the length of every READ and WRITE response is at most the length of
\* its request, whether the response reports success or an error.
C37_LengthAtMostRequested ==
    (/\ ReadDispatched \/ WriteDispatched
     /\ Served /\ lastResp.kind = "rw")
      => lastResp.words[2] <= lastReq.length

\* the walk ran over a valid MBR and no entry of the MBR or of an EBR chain
\* was partition number boot.partition_number
NoSuchPartition ==
    /\ boot.stage \in {"walked", "handoff", "exited"}
    /\ boot.partition_number >= 1 /\ boot.partition_number < PartitionLimit
    /\ Readable(boot.disk, 0) /\ ValidTable(TableAt(boot.disk, 0))
    /\ boot.hit.kind = "none"

\* C38: when the image starts with a valid MBR and the selected partition
\* number is that of no partition of the MBR or its EBR chains, main exits
\* with code 1 ("Partition not found") and do_comm is never entered, whether
\* or not file_size was known before the walk.
C38_PartitionNotFound ==
    NoSuchPartition => (boot.stage = "exited" /\ boot.code = 1)

\* C39: the partition walk of main comes to its end for every image, also
\* when the link entries of an extended partition chain form a cycle or
\* lead back to the EBR that holds them.
C39_WalkTerminates == <>(boot.stage = "done")

\* C40: in VHD mode, whenever vhd_write updates the sector bitmap, buf2 is a
\* live allocation (neither freed nor freed twice) of at least
\* bitmap_datasize bytes, whatever buffer growths went before, on the socket
\* transport and on the driver transport, successful or failed.
C40_Buf2LiveAtBitmapUpdate ==
    (vhd_mode /\ WriteDispatched)
      => \A i \in 1..Len(ioLog) :
            IsBitmapOp(ioLog[i]) => (buf2.st = "live" /\ buf2.cap >= ioLog[i].size)

=============================================================================
